---- MODULE Spec2Model ----
(***************************************************************************)
(* Model of the Mali Vulkan ICD wrapper: the instance lifecycle and the    *)
(* function resolution of the ICD entry points                             *)
(* (src/core/mali_wrapper_icd.cpp, src/core/wsi_manager.cpp), the virtual  *)
(* address allocator and the placed memory mapper                          *)
(* (src/extensions/map_memory_placed).                                     *)
(*                                                                         *)
(* The specifications share the variables:                                 *)
(*   SpecAlloc  the allocator driven through its public operations         *)
(*   SpecMap    the mapper (and, through it, the allocator)                *)
(*   SpecExt    the mapper driven through the extension's entry points     *)
(*   SpecLife   the instance lifecycle under two application threads       *)
(*   SpecIcd    function resolution of the ICD (mali_wrapper_icd.cpp)      *)
(*   SpecEntry  the first calls of the ICD entry point from two threads    *)
(*   SpecTables the writes to the ICD's tables from two threads            *)
(*   SpecDispatch the wrapper library (wrapper_main.cpp, vulkan_dispatch)  *)
(*   SpecLock   the mutexes and table accesses of allocator and mapper     *)
(*   SpecEnum   instance-extension enumeration of both entry points        *)
(* Addresses are integers, a pool of PoolSize units starting at PoolBase;  *)
(* Null is the null pointer.                                               *)
(***************************************************************************)
EXTENDS Integers, Sequences, FiniteSets, TLC

VARIABLES
    \* VirtualAddressAllocator (address_allocator.hpp:37-43)
    ranges,          \* ranges_: sequence of [start, size, is_free]
    allocations,     \* allocations_: address -> size, 0 when absent
    capacity,        \* ranges_.capacity(), which decides whether insert() reallocates
    fault,           \* the process died of memory corruption (outcome of undefined behaviour)
    hist,            \* the last allocator calls, newest last (observation only)
    \* MemoryMapper (memory_mapper.hpp:45-51) and its collaborators
    mappings,        \* mappings_: memory object -> MappingInfo or NoMapping
    driver_mapped,   \* the driver's own view: is the object mapped in the driver
    os_fixed,        \* fixed OS mappings established by SetupMemoryRedirection
    os_reserved,     \* pool addresses the process has mapped (reservation or fixed mapping)
    map_last,        \* the last mapper call (observation only)
    memory_mappings, \* MapMemoryPlacedExtension::memory_mappings_: object -> address, Null when absent
    \* Instance lifecycle (mali_wrapper_icd.cpp:17, wsi_manager.hpp:13-15)
    managed_instances,  \* the set of tracked instance handles
    ref_count,          \* reference count of each tracked instance
    marked,             \* marked-for-destruction flag of each tracked instance
    driver_live,        \* handles that are live instances inside the driver
    destroy_calls,      \* driver destroy calls on a handle since it was created
    pc,                 \* per thread: position inside internal_vkDestroyInstance
    targ,               \* per thread: the instance argument of the call in progress
    life_last,          \* the last completed lifecycle step (observation only)
    \* Function resolution of the ICD (mali_wrapper_icd.cpp, library_loader.hpp)
    initialized,        \* vk_icdGetInstanceProcAddr's static flag
    library_loader,     \* LibraryLoader: which of its handles and pointers are non-null
    device_handle_map,  \* device handle -> canonical device handle
    route_last,         \* the last resolution call (observation only)
    \* vk_icdGetInstanceProcAddr called from several threads
    entry_pc,           \* per thread: position inside vk_icdGetInstanceProcAddr
    entry_name,         \* per thread: the pName of the call in progress
    load_count,         \* completed successful LoadLibraries runs
    \* Writes to the file-scope tables of mali_wrapper_icd.cpp in progress
    writing,            \* per thread: the table it is inside a write of, and the key
    \* The wrapper library (wrapper_main.cpp, vulkan_dispatch.hpp, mali_loader.hpp)
    g_initialized,             \* InitializeWrapper has succeeded
    mali_loader,               \* MaliLoader: library loaded, static device resolver present
    g_current_instance,        \* the instance stored by the last successful vkCreateInstance
    g_instance_count,          \* the atomic count of live instances
    instance_dispatch_tables,  \* instance_dispatch_tables_: instance -> cache of pointers
    device_dispatch_tables,    \* device_dispatch_tables_: device -> cache of pointers
    device_to_instance,        \* device_to_instance_: device -> instance, Null when absent
    mali_instances,            \* instances live inside the driver
    mali_devices,              \* devices live inside the driver
    disp_last,                 \* the last call into the wrapper library (observation only)
    \* Mutexes and table accesses of the allocator, the mapper and the extension
    owner,              \* mutex_ and mappings_mutex_: the thread holding it, Null when free
    todo,               \* per thread: the lock and table steps left in its call
    in_access,          \* per thread: the table it is reading or writing right now
    lock_fault,         \* a thread locked a std::mutex it holds and the call threw
    \* Instance-extension enumeration
    enum_last           \* the last enumeration call with what it stored and returned

allocVars == <<ranges, allocations, capacity, fault, hist>>
mapVars   == <<mappings, driver_mapped, os_fixed, os_reserved, map_last, memory_mappings>>
lifeVars  == <<managed_instances, ref_count, marked, driver_live, destroy_calls,
               pc, targ, life_last>>
routeVars == <<initialized, library_loader, device_handle_map, route_last>>
entryVars == <<entry_pc, entry_name, load_count>>
tableVars == <<writing>>
dispVars  == <<g_initialized, mali_loader, g_current_instance, g_instance_count,
               instance_dispatch_tables,
               device_dispatch_tables, device_to_instance, mali_instances, mali_devices,
               disp_last>>
lockVars  == <<owner, todo, in_access, lock_fault>>
enumVars  == <<enum_last>>
entryOther == <<tableVars, dispVars, lockVars, enumVars>>
tablesOther == <<entryVars, dispVars, lockVars, enumVars>>
dispOther == <<entryVars, tableVars, lockVars, enumVars>>
lockOther == <<entryVars, tableVars, dispVars, enumVars>>
enumOther == <<entryVars, tableVars, dispVars, lockVars>>
nonIcdVars == <<entryVars, tableVars, dispVars, lockVars, enumVars>>
outerVars == <<routeVars, nonIcdVars>>
vars      == <<allocVars, mapVars, lifeVars, routeVars, nonIcdVars>>

-----------------------------------------------------------------------------
(* Bounds and scaled program constants *)

\* AllocateAddress' default alignment (one page), in address units.
DefaultAlignment == 2
\* Pool of PoolSize address units at PoolBase (config defaults scaled down);
\* the base is page aligned, as the reservation by mmap requires.
PoolBase == 2 * DefaultAlignment
PoolSize == 4
\* ranges_ never grows beyond MaxRanges entries in the model.
MaxRanges == 4
\* hist keeps the last HistLen allocator calls.
HistLen == 3

Null == 0
PoolEnd == PoolBase + PoolSize
PoolAddrs == PoolBase .. (PoolEnd - 1)
Sizes == 0 .. PoolSize
Alignments == {0, 1, 2}

\* AddressRange(addr, sz, free)  (address_allocator.hpp:11-18)
AddressRange(addr, sz, free) == [start |-> addr, size |-> sz, is_free |-> free]

-----------------------------------------------------------------------------
(* Sequence helpers standing for std::vector operations *)

\* ranges_.insert(ranges_.begin() + (pos - 1), elem)
InsertAt(seq, pos, elem) ==
    SubSeq(seq, 1, pos - 1) \o <<elem>> \o SubSeq(seq, pos, Len(seq))

\* ranges_.erase(ranges_.begin() + (pos - 1))
EraseAt(seq, pos) ==
    SubSeq(seq, 1, pos - 1) \o SubSeq(seq, pos + 1, Len(seq))

\* Capacity after an insert into a vector of n elements with capacity cap:
\* libstdc++ doubles when full (_M_check_len: n + max(n, 1)).
GrownCapacity(n, cap) == IF n = cap THEN (IF n = 0 THEN 1 ELSE 2 * n) ELSE cap

\* Does insert() into a vector of n elements with capacity cap reallocate?
Reallocates(n, cap) == n = cap

-----------------------------------------------------------------------------
(* VirtualAddressAllocator *)

\* Bit k of the non-negative integer x.
Bit(x, k) == (x \div (2 ^ k)) % 2

\* The bits below position k that x has and m does not.
RECURSIVE LowBits(_, _, _)
LowBits(x, m, k) ==
    IF k = 0 THEN 0
    ELSE LowBits(x, m, k - 1) + Bit(x, k - 1) * (1 - Bit(m, k - 1)) * (2 ^ (k - 1))

\* x & ~m for m < 2^AlignBits: the low bits of x that m does not have, the
\* high bits of x unchanged.
AlignBits == 3
AndNot(x, m) == (x - (x % (2 ^ AlignBits))) + LowBits(x, m, AlignBits)

\* VirtualAddressAllocator::AlignAddress
AlignAddress(address, alignment) ==
    IF alignment <= 1 THEN address
    ELSE AndNot(address + alignment - 1, alignment - 1)

\* VirtualAddressAllocator::IsAddressInPool (pool_start_ is set: the pool was reserved)
IsAddressInPool(address) ==
    address # Null /\ address >= PoolBase /\ address < PoolEnd

\* The allocator's own state as one value, and the result of one call on it.
AllocState == [ranges |-> ranges, allocations |-> allocations, capacity |-> capacity]
Outcome(rs, al, cap, ret, flt) ==
    [ranges |-> rs, allocations |-> al, capacity |-> cap, ret |-> ret, fault |-> flt]

\* A write through the reference `range` after ranges_.insert() reallocated
\* the vector goes to freed storage (undefined behaviour): the element in the
\* new storage keeps its old value, and the heap may be left corrupted so
\* that the process aborts.
DanglingWriteFaults == {FALSE, TRUE}

\* The loop condition of AllocateAddress on one range.
FitsAny(r, size, alignment) ==
    /\ r.is_free
    /\ r.size >= size
    /\ (AlignAddress(r.start, alignment) - r.start) + size <= r.size

\* VirtualAddressAllocator::AllocateAddress: the set of results the call can
\* have on state st (one element wherever the behaviour is defined).
AllocateAddress(st, size, alignment) ==
    LET rs   == st.ranges
        n    == Len(rs)
        fitI == {i \in 1..n : FitsAny(rs[i], size, alignment)}
    IN
    IF size = 0 \/ fitI = {} THEN {Outcome(rs, st.allocations, st.capacity, Null, FALSE)}
    ELSE
    LET i       == CHOOSE k \in fitI : \A j \in fitI : k <= j
        r       == rs[i]
        aligned == AlignAddress(r.start, alignment)
        offset  == aligned - r.start
        allocs2 == [st.allocations EXCEPT ![aligned] = size]
        used    == AddressRange(aligned, size, FALSE)
        moved   == Reallocates(n, st.capacity)
        cap2    == GrownCapacity(n, st.capacity)
    IN
    IF offset > 0 THEN
        \* line 55: insert the leading fragment at the slot of `range`
        LET rs1 == InsertAt(rs, i, AddressRange(r.start, offset, TRUE)) IN
        IF ~moved THEN
            \* `range` now names the inserted fragment: lines 57-58 make it
            \* (aligned, 0), line 61 sees 0 > size false, lines 68-69 make it
            \* the allocated range; the original range stays behind it.
            {Outcome([rs1 EXCEPT ![i] = used], allocs2, cap2, aligned, FALSE)}
        ELSE
            \* `range` dangles: lines 57-69 read and write freed storage.
            {Outcome(rs1, allocs2, cap2, aligned, FALSE),
             Outcome(rs1, st.allocations, cap2, Null, TRUE)}
    ELSE IF r.size > size THEN
        \* line 64: insert the trailing fragment behind `range`
        LET rs1 == InsertAt(rs, i + 1, AddressRange(aligned + size, r.size - size, TRUE)) IN
        IF ~moved THEN
            {Outcome([rs1 EXCEPT ![i] = used], allocs2, cap2, aligned, FALSE)}
        ELSE
            {IF f THEN Outcome(rs1, st.allocations, cap2, Null, TRUE)
                  ELSE Outcome(rs1, allocs2, cap2, aligned, FALSE)
               : f \in DanglingWriteFaults}
    ELSE
        {Outcome([rs EXCEPT ![i] = used], allocs2, st.capacity, aligned, FALSE)}

\* Number of elements AllocateAddress inserts into ranges_ on state st.
AllocateAddressGrowth(st, size, alignment) ==
    LET fitI == {i \in 1..Len(st.ranges) : FitsAny(st.ranges[i], size, alignment)} IN
    IF size = 0 \/ fitI = {} THEN 0
    ELSE LET i == CHOOSE k \in fitI : \A j \in fitI : k <= j
             r == st.ranges[i]
         IN  IF AlignAddress(r.start, alignment) > r.start \/ r.size > size THEN 1 ELSE 0

\* The loop condition of AllocateSpecificAddress on one range.
FitsExact(r, preferred, size) ==
    /\ r.is_free
    /\ preferred >= r.start
    /\ preferred + size <= r.start + r.size

\* VirtualAddressAllocator::AllocateSpecificAddress: the set of results the
\* call can have on state st.
AllocateSpecificAddress(st, preferred, size) ==
    LET rs   == st.ranges
        n    == Len(rs)
        fitI == {i \in 1..n : FitsExact(rs[i], preferred, size)}
        fail == Outcome(rs, st.allocations, st.capacity, Null, FALSE)
    IN
    IF preferred = Null \/ size = 0 \/ ~IsAddressInPool(preferred) \/ fitI = {} THEN {fail}
    ELSE
    LET i       == CHOOSE k \in fitI : \A j \in fitI : k <= j
        r       == rs[i]
        before  == preferred - r.start
        after   == (r.start + r.size) - (preferred + size)
        lead    == AddressRange(r.start, before, TRUE)
        trail   == AddressRange(preferred + size, after, TRUE)
        used    == AddressRange(preferred, size, FALSE)
        allocs2 == [st.allocations EXCEPT ![preferred] = size]
        cap1    == GrownCapacity(n, st.capacity)
        cap2    == GrownCapacity(n + 1, cap1)
        died(rsX, capX) == Outcome(rsX, st.allocations, capX, Null, TRUE)
        lost(rsX, capX) ==
            {IF f THEN died(rsX, capX) ELSE Outcome(rsX, allocs2, capX, preferred, FALSE)
               : f \in DanglingWriteFaults}
    IN
    IF before = 0 /\ after = 0 THEN
        {Outcome([rs EXCEPT ![i] = used], allocs2, st.capacity, preferred, FALSE)}
    ELSE IF before = 0 THEN
        \* line 113: the trailing fragment goes behind `range`
        LET rs1 == InsertAt(rs, i + 1, trail) IN
        IF Reallocates(n, st.capacity) THEN lost(rs1, cap1)
        ELSE {Outcome([rs1 EXCEPT ![i] = used], allocs2, cap1, preferred, FALSE)}
    ELSE IF after = 0 THEN
        \* line 108: the leading fragment takes the slot of `range`, which
        \* then names the fragment; lines 117-119 overwrite the fragment.
        LET rs1 == InsertAt(rs, i, lead) IN
        IF Reallocates(n, st.capacity) THEN lost(rs1, cap1)
        ELSE {Outcome([rs1 EXCEPT ![i] = used], allocs2, cap1, preferred, FALSE)}
    ELSE
        LET rs1 == InsertAt(rs, i, lead) IN
        IF Reallocates(n, st.capacity) THEN
            \* line 113 computes its position from the dangling `range`: the
            \* fragment lands at an arbitrary slot, or the process dies.
            {died(rs1, cap1)}
            \cup UNION {lost(InsertAt(rs1, j, trail), cap2) : j \in 1..(n + 2)}
        ELSE
            LET rs2 == InsertAt(rs1, i + 2, trail) IN
            IF Reallocates(n + 1, cap1) THEN lost(rs2, cap2)
            ELSE {Outcome([rs2 EXCEPT ![i] = used], allocs2, cap2, preferred, FALSE)}

\* Number of elements AllocateSpecificAddress inserts into ranges_ on state st.
AllocateSpecificGrowth(st, preferred, size) ==
    LET fitI == {i \in 1..Len(st.ranges) : FitsExact(st.ranges[i], preferred, size)} IN
    IF preferred = Null \/ size = 0 \/ ~IsAddressInPool(preferred) \/ fitI = {} THEN 0
    ELSE LET i == CHOOSE k \in fitI : \A j \in fitI : k <= j
             r == st.ranges[i]
         IN  (IF preferred > r.start THEN 1 ELSE 0)
             + (IF r.start + r.size > preferred + size THEN 1 ELSE 0)

\* VirtualAddressAllocator::SortRanges: std::sort by start; on the few
\* elements of ranges_ it is an insertion sort, which keeps equal starts in order.
RECURSIVE SortRanges(_)
SortRanges(rs) ==
    IF Len(rs) <= 1 THEN rs
    ELSE LET sorted == SortRanges(SubSeq(rs, 1, Len(rs) - 1))
             x      == rs[Len(rs)]
             pos    == 1 + Cardinality({k \in 1..Len(sorted) : sorted[k].start <= x.start})
         IN  InsertAt(sorted, pos, x)

\* The merging loop of CoalesceRanges from index i on.
RECURSIVE MergeFrom(_, _)
MergeFrom(rs, i) ==
    IF i >= Len(rs) THEN rs
    ELSE IF /\ rs[i].is_free /\ rs[i + 1].is_free
            /\ rs[i].start + rs[i].size = rs[i + 1].start
         THEN MergeFrom(EraseAt([rs EXCEPT ![i].size = rs[i].size + rs[i + 1].size], i + 1), i)
         ELSE MergeFrom(rs, i + 1)

\* VirtualAddressAllocator::CoalesceRanges
CoalesceRanges(rs) == IF rs = <<>> THEN rs ELSE MergeFrom(SortRanges(rs), 1)

DeallocateAddressOfUnknownSucceeds(st, address) ==
    Outcome(st.ranges, st.allocations, st.capacity, TRUE, FALSE)

\* VirtualAddressAllocator::DeallocateAddress: the result of the call on st.
DeallocateAddress(st, address) ==
    LET rs == st.ranges
        unchanged == Outcome(rs, st.allocations, st.capacity, FALSE, FALSE)
    IN
    IF address = Null \/ address \notin DOMAIN st.allocations THEN unchanged
    ELSE IF st.allocations[address] = 0 THEN unchanged
    ELSE
    LET size    == st.allocations[address]
        allocs2 == [st.allocations EXCEPT ![address] = 0]
        hit     == {i \in 1..Len(rs) :
                      rs[i].start = address /\ rs[i].size = size /\ ~rs[i].is_free}
    IN
    IF hit = {} THEN
        \* "Address allocation inconsistency detected"
        Outcome(rs, allocs2, st.capacity, FALSE, FALSE)
    ELSE
        LET i == CHOOSE k \in hit : \A j \in hit : k <= j IN
        Outcome(CoalesceRanges([rs EXCEPT ![i].is_free = TRUE]), allocs2, st.capacity,
                TRUE, FALSE)

-----------------------------------------------------------------------------
(* The allocator's operations as actions (SpecAlloc) *)

NoAllocations == [a \in PoolAddrs |-> 0]

\* The live allocations: the addresses handed out and not yet freed.
Live(allocs) == {a \in PoolAddrs : allocs[a] > 0}

\* hist holds the calls of the scenario in progress, newest last:
\*   AllocateAny on a pool without live allocations, Free of the address it
\*   returned, AllocateAny of the same size and alignment again; or
\*   Free of a live allocation followed by Free of another live allocation
\*   or by Free of the same address again.
\* A call that continues no scenario starts one, or clears hist.
Starts(e) ==
    \/ e.op = "AllocateAny" /\ e.live = 0 /\ e.size > 0
    \/ e.op = "Free" /\ e.size > 0

Continues(h, e) ==
    \/ /\ Len(h) = 1 /\ h[1].op = "AllocateAny" /\ h[1].ret # Null
       /\ e.op = "Free" /\ e.addr = h[1].ret
    \/ /\ Len(h) = 2 /\ h[1].op = "AllocateAny" /\ h[2].op = "Free"
       /\ e.op = "AllocateAny" /\ e.size = h[1].size /\ e.align = h[1].align
    \/ /\ Len(h) = 1 /\ h[1].op = "Free"
       /\ e.op = "Free" /\ (e.size > 0 \/ e.addr = h[1].addr)

HistPush(h, e) ==
    IF Len(h) < HistLen /\ Continues(h, e) THEN Append(h, e)
    ELSE IF Starts(e) THEN <<e>>
    ELSE <<>>

\* One observed allocator call: what was asked, what came back, and how
\* many allocations were live when it was made.
Call(op, addr, size, align, ret) ==
    [op |-> op, addr |-> addr, size |-> size, align |-> align, ret |-> ret,
     live |-> Cardinality(Live(allocations))]

Apply(o, call) ==
    /\ ranges' = o.ranges
    /\ allocations' = o.allocations
    /\ capacity' = o.capacity
    /\ fault' = o.fault
    /\ hist' = HistPush(hist, call)

\* VirtualAddressAllocator::VirtualAddressAllocator: one free range covering
\* the pool (emplace_back on the empty vector gives capacity 1).
AllocInit ==
    /\ ranges = <<AddressRange(PoolBase, PoolSize, TRUE)>>
    /\ allocations = NoAllocations
    /\ capacity = 1
    /\ fault = FALSE
    /\ hist = <<>>

AllocateAny(size, alignment) ==
    /\ ~fault
    /\ Len(ranges) + AllocateAddressGrowth(AllocState, size, alignment) <= MaxRanges
    /\ \E o \in AllocateAddress(AllocState, size, alignment) :
          Apply(o, Call("AllocateAny", Null, size, alignment, o.ret))
    /\ UNCHANGED <<mapVars, lifeVars>>

AllocateExact(address, size) ==
    /\ ~fault
    /\ Len(ranges) + AllocateSpecificGrowth(AllocState, address, size) <= MaxRanges
    /\ \E o \in AllocateSpecificAddress(AllocState, address, size) :
          Apply(o, Call("AllocateExact", address, size, 0, o.ret))
    /\ UNCHANGED <<mapVars, lifeVars>>

Free(address) ==
    /\ ~fault
    /\ LET o == DeallocateAddress(AllocState, address) IN
          Apply(o, Call("Free", address,
                        IF address \in PoolAddrs THEN allocations[address] ELSE 0,
                        0, o.ret))
    /\ UNCHANGED <<mapVars, lifeVars>>

-----------------------------------------------------------------------------
(* Initial states of the other components *)

NumMems == 2
Mems == 1 .. NumMems
NumHandles == 2
Handles == 1 .. NumHandles
NumThreads == 2
Threads == 1 .. NumThreads

\* The value of mappings[m] when mappings_ has no entry for m.
NoMapping == [mapped |-> FALSE, memory |-> 0, size |-> 0, mali_address |-> 0,
              virtual_address |-> 0, is_placed |-> FALSE]
NoCall == [op |-> "none"]
NoTarget == [instance |-> Null, refs |-> 0]

\* VirtualAddressAllocator::ReserveVirtualMemory, called by the constructor:
\* an inaccessible anonymous mapping over the whole pool.
ReserveVirtualMemory(address, size) == address .. (address + size - 1)

\* munmap(address, size): the addresses are handed back to the operating
\* system, whatever was mapped there.
munmap(reserved, address, size) == reserved \ (address .. (address + size - 1))

\* mmap(address, size, ..., MAP_FIXED ...): the addresses are mapped
\* afterwards, whatever was there before.
mmap_fixed(reserved, address, size) == reserved \cup (address .. (address + size - 1))

MapInit ==
    /\ mappings = [m \in Mems |-> NoMapping]
    /\ driver_mapped = [m \in Mems |-> FALSE]
    /\ os_fixed = {}
    /\ os_reserved = ReserveVirtualMemory(PoolBase, PoolSize)
    /\ map_last = NoCall
    /\ memory_mappings = [m \in Mems |-> Null]

LifeInit ==
    /\ managed_instances = {}
    /\ ref_count = [h \in Handles |-> 0]
    /\ marked = [h \in Handles |-> FALSE]
    /\ driver_live = {}
    /\ destroy_calls = [h \in Handles |-> 0]
    /\ pc = [t \in Threads |-> "idle"]
    /\ targ = [t \in Threads |-> NoTarget]
    /\ life_last = NoCall

\* Before the first vk_icdGetInstanceProcAddr call nothing is loaded.
NoLibraries == [mali_get_instance_proc_addr |-> FALSE, wsi_handle |-> FALSE,
                wsi_get_instance_proc_addr |-> FALSE]

\* A function name is a sequence of pieces, so that strstr can look for a
\* piece; NullName is a null pName and NullFn a null function pointer.
NullName == <<>>
NullFn == [owner |-> "null", symbol |-> <<>>]
NoResolution == [entry |-> "none", name |-> NullName, mali |-> FALSE, gdpa |-> FALSE,
                 wsi |-> FALSE, ret |-> NullFn, asked |-> {}]

\* Device handles, and the empty device_handle_map (Null: no entry).
NumDevices == 3
Devices == 1 .. NumDevices
NoDevices == [d \in Devices |-> Null]

RouteInit ==
    /\ initialized = FALSE
    /\ library_loader = NoLibraries
    /\ device_handle_map = NoDevices
    /\ route_last = NoResolution

\* No thread is inside vk_icdGetInstanceProcAddr.
EntryInit ==
    /\ entry_pc = [t \in Threads |-> "idle"]
    /\ entry_name = [t \in Threads |-> NullName]
    /\ load_count = 0

\* No thread is inside a write to managed_instances or device_handle_map.
NoWrite == [table |-> "none", op |-> "none", key |-> Null]

TableInit == writing = [t \in Threads |-> NoWrite]

\* The names whose pointers the dispatch tables of the model can hold.
InstanceCacheNames == {<<"vkMapMemory2KHR">>}
DeviceCacheNames == {<<"vkDestroyDevice">>, <<"vkCmdDraw">>}

\* A handle without an entry in a dispatch table map, and an entry as
\* RegisterInstance / RegisterDevice leave it.
NoTable(names) == [present |-> FALSE, funcs |-> [n \in names |-> NullFn]]
EmptyTable(names) == [present |-> TRUE, funcs |-> [n \in names |-> NullFn]]

NotLoaded == [loaded |-> FALSE, get_device_proc_addr |-> FALSE]

NoDispatch == [op |-> "none", instance |-> Null, device |-> Null, name |-> NullName,
               ret |-> NullFn, ok |-> FALSE, looked_up |-> FALSE, recorded |-> Null,
               parent |-> Null, tracked |-> FALSE, destroyed |-> FALSE, fresh |-> NullFn]

DispInit ==
    /\ g_initialized = FALSE
    /\ mali_loader = NotLoaded
    /\ g_current_instance = Null
    /\ g_instance_count = 0
    /\ instance_dispatch_tables = [i \in Handles |-> NoTable(InstanceCacheNames)]
    /\ device_dispatch_tables = [d \in Devices |-> NoTable(DeviceCacheNames)]
    /\ device_to_instance = [d \in Devices |-> Null]
    /\ mali_instances = {}
    /\ mali_devices = {}
    /\ disp_last = NoDispatch

\* The two mutexes: VirtualAddressAllocator::mutex_ (address_allocator.hpp:43)
\* and MemoryMapper::mappings_mutex_ (memory_mapper.hpp:51).
Mutexes == {"mutex_", "mappings_mutex_"}

LockInit ==
    /\ owner = [m \in Mutexes |-> Null]
    /\ todo = [t \in Threads |-> <<>>]
    /\ in_access = [t \in Threads |-> "none"]
    /\ lock_fault = FALSE

NoEnumeration == [op |-> "none"]

EnumInit == enum_last = NoEnumeration

Init ==
    /\ AllocInit /\ MapInit /\ LifeInit /\ RouteInit /\ EntryInit /\ TableInit /\ DispInit
    /\ LockInit /\ EnumInit

-----------------------------------------------------------------------------
(* SpecAlloc: the allocator under every sequence of its public operations *)

ExactAddrs == PoolAddrs \cup {Null, PoolEnd}

NextAlloc ==
    \/ \E size \in Sizes, alignment \in Alignments :
          AllocateAny(size, alignment) /\ UNCHANGED outerVars
    \/ \E address \in ExactAddrs, size \in Sizes :
          AllocateExact(address, size) /\ UNCHANGED outerVars
    \/ \E address \in ExactAddrs : Free(address) /\ UNCHANGED outerVars

SpecAlloc == Init /\ [][NextAlloc]_vars

-----------------------------------------------------------------------------
(* Claims about the allocator *)

\* [lo1, lo1 + n1) and [lo2, lo2 + n2) share an address.
Overlap(lo1, n1, lo2, n2) == lo1 < lo2 + n2 /\ lo2 < lo1 + n1

\* [address, address + size) overlaps a live allocation.
OverlapsLive(address, size) ==
    \E a \in Live(allocations) : Overlap(address, size, a, allocations[a])

\* C4: after any sequence of AllocateAny, AllocateExact and Free calls the
\* range list is sorted by start address, its ranges are disjoint and
\* contiguous end to end, covering exactly [PoolBase, PoolEnd), and no two
\* adjacent ranges are both free.
RangeListWellFormed ==
    /\ Len(ranges) >= 1
    /\ ranges[1].start = PoolBase
    /\ ranges[Len(ranges)].start + ranges[Len(ranges)].size = PoolEnd
    /\ \A i \in 1..Len(ranges) : ranges[i].size > 0
    /\ \A i \in 1..(Len(ranges) - 1) :
          /\ ranges[i].start + ranges[i].size = ranges[i + 1].start
          /\ ~(ranges[i].is_free /\ ranges[i + 1].is_free)

C4_RangeListWellFormed == ~fault => RangeListWellFormed

\* C5: AllocateExact(address, size) returns null whenever
\* [address, address + size) overlaps a live allocation, for every size, and
\* an AllocateExact that returns null leaves the range list and the
\* allocation records unchanged.
C5_ExactOverlapFailsUnchanged ==
    ~fault => \A address \in ExactAddrs, size \in Sizes :
        \A o \in AllocateSpecificAddress(AllocState, address, size) :
            /\ (size > 0 /\ OverlapsLive(address, size)) => o.ret = Null
            /\ (o.ret = Null /\ ~o.fault) =>
                   (o.ranges = ranges /\ o.allocations = allocations)

\* The free ranges of the list that share an address with [lo, hi).
FreeRangesTouching(lo, hi) ==
    {i \in 1..Len(ranges) :
        ranges[i].is_free /\ Overlap(ranges[i].start, ranges[i].size, lo, hi - lo)}

\* hist shows Free of a live allocation A followed by Free of a live
\* allocation B, one starting where the other ends.
FreedAdjacentPair ==
    /\ Len(hist) = 2 /\ hist[1].op = "Free" /\ hist[2].op = "Free"
    /\ hist[1].size > 0 /\ hist[2].size > 0
    /\ \/ hist[1].addr + hist[1].size = hist[2].addr
       \/ hist[2].addr + hist[2].size = hist[1].addr

\* C6: after freeing two adjacent live allocations, in either order, exactly
\* one free range covers the addresses of both.
C6_AdjacentFreesCoalesce ==
    (~fault /\ FreedAdjacentPair) =>
        LET lo == IF hist[1].addr < hist[2].addr THEN hist[1].addr ELSE hist[2].addr
            hi == lo + hist[1].size + hist[2].size
        IN  /\ Cardinality(FreeRangesTouching(lo, hi)) = 1
            /\ \A i \in FreeRangesTouching(lo, hi) :
                  ranges[i].start <= lo /\ ranges[i].start + ranges[i].size >= hi

\* C7: on a pool without live allocations, AllocateAny(size), Free of the
\* returned address, AllocateAny(size) again: both allocations succeed for
\* every size that fits the pool, and both addresses lie within the pool.
C7_AllocFreeAllocSucceeds ==
    (~fault /\ Len(hist) >= 1 /\ hist[1].op = "AllocateAny" /\ hist[1].live = 0
       /\ hist[1].size <= PoolSize) =>
        /\ IsAddressInPool(hist[1].ret)
        /\ Len(hist) = 3 => IsAddressInPool(hist[3].ret)

\* C18: Free(address) with an address that is not currently allocated
\* (never allocated, already freed, or null) reports failure and leaves the
\* range list and the allocation records unchanged.
C18_FreeUnallocatedFailsUnchanged ==
    ~fault => \A address \in ExactAddrs \ Live(allocations) :
        LET o == DeallocateAddress(AllocState, address) IN
            /\ ~o.ret /\ ~o.fault
            /\ o.ranges = ranges
            /\ o.allocations = allocations

\* C18 witness: an allocation was freed and Free of the same address was
\* called again and reported failure.
C18_Witness ==
    /\ ~fault /\ Len(hist) = 2
    /\ hist[1].op = "Free" /\ hist[1].ret = TRUE
    /\ hist[2].op = "Free" /\ hist[2].addr = hist[1].addr /\ hist[2].ret = FALSE
    /\ Live(allocations) # {}

-----------------------------------------------------------------------------
(* MemoryMapper *)

\* The longest range list explored through the mapper.
MapMaxRanges == 3

\* The address the driver's vkMapMemory returns for a memory object: the
\* pool is reserved, so the driver maps outside it.
MaliAddress(memory) == PoolEnd + memory

\* MappingInfo(mem, off, sz, mali_addr, virt_addr, placed); the offset is
\* only stored, never used.
MappingInfo(memory, size, mali_address, virtual_address, placed) ==
    [mapped |-> TRUE, memory |-> memory, size |-> size, mali_address |-> mali_address,
     virtual_address |-> virtual_address, is_placed |-> placed]

FallbackMappingMarkedPlaced(memory, size, mali_address) ==
    MappingInfo(memory, size, mali_address, mali_address, TRUE)

\* Lines 64-65 and 97: the record stored when no placement was made.
FallbackMapping(memory, size, mali_address) ==
    MappingInfo(memory, size, mali_address, mali_address, FALSE)

PlacedMappingAtDriverAddress(memory, size, mali_address, virtual_address) ==
    MappingInfo(memory, size, mali_address, mali_address, TRUE)

\* Lines 70-71, 85-86 and 97: the record stored for a placed mapping.
PlacedMapping(memory, size, mali_address, virtual_address) ==
    MappingInfo(memory, size, mali_address, virtual_address, TRUE)

\* MemoryMapper::SetupMemoryRedirection: the fixed OS mappings after a
\* successful call (no mmap when both addresses are the same).
SetupMemoryRedirection(fixed, mali_address, virtual_address, size) ==
    IF mali_address = virtual_address THEN fixed
    ELSE fixed \cup {<<virtual_address, size>>}

\* CleanupMemoryRedirection without the munmap.
CleanupMemoryRedirectionKeeps(fixed, mali_address, virtual_address, size) == fixed

\* MemoryMapper::CleanupMemoryRedirection
CleanupMemoryRedirection(fixed, mali_address, virtual_address, size) ==
    IF mali_address = virtual_address THEN fixed
    ELSE fixed \ {<<virtual_address, size>>}

\* One observed mapper call. pre_ranges / pre_allocations are the pool as
\* it was when the call (for UnmapMemory: the MapMemory directly before it)
\* began; they are kept for the calls that reserve or fail to reserve.
\* address is the value stored through ppMappedAddress, preferred the
\* preferred_address argument of a call that placed the mapping,
\* driver_called whether mali_map_memory_ ran.
MapCall(op, memory, preferred, ret, address, path, called, unmapped, pre_r, pre_a) ==
    [op |-> op, memory |-> memory, preferred |-> preferred, ret |-> ret,
     address |-> address, path |-> path, driver_called |-> called,
     driver_unmapped |-> unmapped, pre_ranges |-> pre_r, pre_allocations |-> pre_a]

IsMemoryMappedNever(memory) == FALSE

IsMemoryMappedAlways(memory) == TRUE

\* mappings_.find(memory) != mappings_.end()
IsMemoryMapped(memory) == mappings[memory].mapped

SetAlloc(o) ==
    /\ ranges' = o.ranges
    /\ allocations' = o.allocations
    /\ capacity' = o.capacity
    /\ fault' = o.fault
    /\ UNCHANGED hist

\* MemoryMapper::MapMemory. drv is what the driver's vkMapMemory does
\* ("ok", "error", or "null": success with a null address), redirect whether
\* the mmap / mprotect calls of SetupMemoryRedirection succeed.
MapMemory(memory, size, preferred, drv, redirect) ==
    LET mali_address == MaliAddress(memory)
        keep(path) == \/ path \in {"alloc_failed", "redirect_failed"}
                      \/ path = "placed" /\ preferred # Null
        call(ret, address, path, unmapped) ==
            MapCall("MapMemory", memory, IF path = "placed" THEN preferred ELSE Null,
                    ret, address, path,
                    path # "existing", unmapped,
                    IF keep(path) THEN ranges ELSE <<>>,
                    IF keep(path) THEN allocations ELSE <<>>)
        growth == IF preferred # Null
                  THEN AllocateSpecificGrowth(AllocState, preferred, size)
                  ELSE AllocateAddressGrowth(AllocState, size, DefaultAlignment)
    IN
    /\ ~fault
    /\ Len(ranges) + growth <= MapMaxRanges
    /\ UNCHANGED lifeVars
    /\ IF IsMemoryMapped(memory) THEN
           \* lines 46-50: already mapped; the driver is not called
           /\ drv = "ok" /\ redirect
           /\ map_last' = call("VK_SUCCESS", mappings[memory].virtual_address, "existing", FALSE)
           /\ UNCHANGED <<allocVars, mappings, driver_mapped, os_fixed, os_reserved>>
       ELSE IF drv = "error" THEN
           \* lines 54-57
           /\ redirect
           /\ map_last' = call("VK_ERROR_MEMORY_MAP_FAILED", Null, "driver_error", FALSE)
           /\ UNCHANGED <<allocVars, mappings, driver_mapped, os_fixed, os_reserved>>
       ELSE IF drv = "null" THEN
           \* lines 59-62: the driver produced no mapping
           /\ redirect
           /\ map_last' = call("VK_ERROR_MEMORY_MAP_FAILED", Null, "driver_null", FALSE)
           /\ UNCHANGED <<allocVars, mappings, driver_mapped, os_fixed, os_reserved>>
       ELSE
           \E o \in (IF preferred # Null
                     THEN AllocateSpecificAddress(AllocState, preferred, size)
                     ELSE AllocateAddress(AllocState, size, DefaultAlignment)) :
              IF o.fault THEN
                  /\ redirect
                  /\ SetAlloc(o)
                  /\ driver_mapped' = [driver_mapped EXCEPT ![memory] = TRUE]
                  /\ map_last' = call("none", Null, "fault", FALSE)
                  /\ UNCHANGED <<mappings, os_fixed, os_reserved>>
              ELSE IF o.ret = Null THEN
                  \* lines 79-81 (and 84 false): no placement, the driver's address is used
                  /\ redirect
                  /\ SetAlloc(o)
                  /\ driver_mapped' = [driver_mapped EXCEPT ![memory] = TRUE]
                  /\ mappings' = [mappings EXCEPT
                                    ![memory] = FallbackMapping(memory, size, mali_address)]
                  /\ map_last' = call("VK_SUCCESS", mali_address, "alloc_failed", FALSE)
                  /\ UNCHANGED <<os_fixed, os_reserved>>
              ELSE IF redirect THEN
                  \* lines 70-73 / 85-88 with CreatePlacedMapping succeeding, then 97-104
                  /\ SetAlloc(o)
                  /\ driver_mapped' = [driver_mapped EXCEPT ![memory] = TRUE]
                  /\ os_fixed' = SetupMemoryRedirection(os_fixed, mali_address, o.ret, size)
                  /\ os_reserved' = IF mali_address = o.ret THEN os_reserved
                                    ELSE mmap_fixed(os_reserved, o.ret, size)
                  /\ mappings' = [mappings EXCEPT
                                    ![memory] = PlacedMapping(memory, size, mali_address, o.ret)]
                  /\ map_last' = call("VK_SUCCESS", o.ret, "placed", FALSE)
              ELSE
                  \* lines 74-78 / 89-93: release the reservation, unmap in the driver
                  /\ SetAlloc(DeallocateAddress(o, o.ret))
                  /\ driver_mapped' = [driver_mapped EXCEPT ![memory] = FALSE]
                  /\ map_last' = call("VK_ERROR_MEMORY_MAP_FAILED", Null, "redirect_failed", TRUE)
                  /\ UNCHANGED <<mappings, os_fixed, os_reserved>>

\* MemoryMapper::UnmapMemory
UnmapMemory(memory) ==
    LET mapping == mappings[memory]
        after_map == /\ map_last.op = "MapMemory" /\ map_last.memory = memory
                     /\ map_last.path = "placed" /\ map_last.pre_ranges # <<>>
        call(path, unmapped) ==
            MapCall("UnmapMemory", memory, Null, "VK_SUCCESS", Null, path, FALSE, unmapped,
                    IF after_map THEN map_last.pre_ranges ELSE <<>>,
                    IF after_map THEN map_last.pre_allocations ELSE <<>>)
    IN
    /\ ~fault
    /\ UNCHANGED lifeVars
    /\ IF ~IsMemoryMapped(memory) THEN
           \* lines 111-114
           /\ map_last' = call("not_mapped", FALSE)
           /\ UNCHANGED <<allocVars, mappings, driver_mapped, os_fixed, os_reserved>>
       ELSE
           /\ IF mapping.is_placed THEN
                  \* lines 118-123
                  /\ os_fixed' = CleanupMemoryRedirection(os_fixed, mapping.mali_address,
                                                         mapping.virtual_address, mapping.size)
                  /\ os_reserved' = IF mapping.mali_address = mapping.virtual_address
                                    THEN os_reserved
                                    ELSE munmap(os_reserved, mapping.virtual_address,
                                                mapping.size)
                  /\ SetAlloc(DeallocateAddress(AllocState, mapping.virtual_address))
                  /\ map_last' = call(IF after_map THEN "placed_after_map" ELSE "placed", TRUE)
              ELSE
                  /\ map_last' = call("plain", TRUE)
                  /\ UNCHANGED <<allocVars, os_fixed, os_reserved>>
           \* lines 125-126
           /\ driver_mapped' = [driver_mapped EXCEPT ![memory] = FALSE]
           /\ mappings' = [mappings EXCEPT ![memory] = NoMapping]

-----------------------------------------------------------------------------
(* SpecMap: the mapper under every sequence of MapMemory / UnmapMemory *)

MapSizes == {1, 2, PoolSize}
DriverResults == {"ok", "error", "null"}

NextMap ==
    \/ \E memory \in Mems, size \in MapSizes, preferred \in ExactAddrs,
          drv \in DriverResults, redirect \in BOOLEAN :
          MapMemory(memory, size, preferred, drv, redirect)
          /\ UNCHANGED <<memory_mappings, outerVars>>
    \/ \E memory \in Mems : UnmapMemory(memory) /\ UNCHANGED <<memory_mappings, outerVars>>

SpecMap == Init /\ [][NextMap]_vars

-----------------------------------------------------------------------------
(* SpecExt: the mapper driven through vkMapMemory2KHR / vkUnmapMemory2KHR *)

\* MapMemoryPlacedExtension::MapMemory2KHR. placed is pPlacedAddress of the
\* VkMemoryMapPlacedInfoEXT in the pNext chain, Null when there is none.
MapMemory2KHR(memory, size, placed, drv, redirect) ==
    /\ MapMemory(memory, size, placed, drv, redirect)
    /\ memory_mappings' =
          IF map_last'.ret = "VK_SUCCESS"
          THEN [memory_mappings EXCEPT ![memory] = map_last'.address]
          ELSE memory_mappings

\* MapMemoryPlacedExtension::UnmapMemory2KHR
UnmapMemory2KHR(memory) ==
    IF memory_mappings[memory] = Null THEN
        \* lines 171-175: not mapped through the extension, the mapper is not called
        /\ ~fault
        /\ map_last' = MapCall("UnmapMemory2KHR", memory, Null, "VK_SUCCESS", Null,
                               "not_mapped", FALSE, FALSE, <<>>, <<>>)
        /\ UNCHANGED <<allocVars, lifeVars, mappings, driver_mapped, os_fixed, os_reserved,
                     memory_mappings>>
    ELSE
        \* lines 177-182: UnmapMemory always returns VK_SUCCESS
        /\ UnmapMemory(memory)
        /\ memory_mappings' = [memory_mappings EXCEPT ![memory] = Null]

NextExt ==
    \/ \E memory \in Mems, size \in MapSizes, placed \in ExactAddrs,
          drv \in DriverResults, redirect \in BOOLEAN :
          MapMemory2KHR(memory, size, placed, drv, redirect) /\ UNCHANGED outerVars
    \/ \E memory \in Mems : UnmapMemory2KHR(memory) /\ UNCHANGED outerVars

SpecExt == Init /\ [][NextExt]_vars

-----------------------------------------------------------------------------
(* Claims about the mapper, checked under SpecMap *)

PoolAsBeforeCall ==
    /\ ranges = map_last.pre_ranges
    /\ allocations = map_last.pre_allocations

\* C8: MapMemory with a preferred address inside the pool, directly
\* followed by UnmapMemory of the same memory object, leaves the range list
\* and the allocation records exactly as they were before the MapMemory.
C8_MapUnmapRestoresPool ==
    (~fault /\ map_last.op = "UnmapMemory" /\ map_last.path = "placed_after_map")
        => PoolAsBeforeCall

\* C9: when the driver mapping and the reservation succeeded but the
\* redirection could not be set up, MapMemory returns a failure, has released
\* the reservation and called the driver's unmap, stores no record, and the
\* allocator is as it was before the call.
C9_RedirectFailureRollsBack ==
    (~fault /\ map_last.op = "MapMemory" /\ map_last.path = "redirect_failed") =>
        /\ map_last.ret # "VK_SUCCESS"
        /\ map_last.driver_unmapped
        /\ ~driver_mapped[map_last.memory]
        /\ ~mappings[map_last.memory].mapped
        /\ PoolAsBeforeCall

AllocatorCouldNotProvide ==
    ~fault /\ map_last.op = "MapMemory" /\ map_last.path = "alloc_failed"

\* C10 (as stated): when the allocator cannot provide the reservation the
\* call fails, the driver's unmap is called and no mapping record is stored.
C10_AllocFailureFailsCall ==
    AllocatorCouldNotProvide =>
        /\ map_last.ret # "VK_SUCCESS"
        /\ map_last.driver_unmapped
        /\ ~driver_mapped[map_last.memory]
        /\ ~mappings[map_last.memory].mapped

\* C10 (amended): when the allocator cannot provide the reservation the call
\* succeeds with the driver's own address: the record stored is unplaced with
\* virtual address = driver address, the driver mapping is kept (no unmap),
\* and the allocator is unchanged.
C10_AllocFailureFallsBack ==
    AllocatorCouldNotProvide =>
        /\ map_last.ret = "VK_SUCCESS"
        /\ ~map_last.driver_unmapped
        /\ driver_mapped[map_last.memory]
        /\ mappings[map_last.memory].mapped
        /\ ~mappings[map_last.memory].is_placed
        /\ mappings[map_last.memory].virtual_address = MaliAddress(map_last.memory)
        /\ mappings[map_last.memory].mali_address = MaliAddress(map_last.memory)
        /\ PoolAsBeforeCall

\* C10 witness: a MapMemory that found the whole pool reserved by the other
\* memory object's placed mapping.
C10_Witness ==
    /\ AllocatorCouldNotProvide
    /\ Len(map_last.pre_ranges) >= 1
    /\ \A i \in 1..Len(map_last.pre_ranges) : ~map_last.pre_ranges[i].is_free
    /\ \E m \in Mems \ {map_last.memory} : mappings[m].mapped /\ mappings[m].is_placed

-----------------------------------------------------------------------------
(* Further claims about the mapper *)

PlacedAtPreferred ==
    ~fault /\ map_last.op = "MapMemory" /\ map_last.path = "placed"
           /\ map_last.preferred # Null

C12_AtMostOneMappingPerObject ==
    [][(map_last'.op = "MapMemory" /\ mappings[map_last'.memory].mapped) =>
           /\ ~map_last'.driver_called
           /\ map_last'.ret = "VK_SUCCESS"
           /\ map_last'.address = mappings[map_last'.memory].virtual_address
           /\ UNCHANGED <<mappings, driver_mapped, os_fixed, ranges, allocations>>]_vars

\* C12 witness: a second MapMemory on a mapped object has returned.
C12_Witness ==
    /\ map_last.op = "MapMemory" /\ map_last.path = "existing"
    /\ mappings[map_last.memory].mapped
    /\ \E m \in Mems \ {map_last.memory} : mappings[m].mapped

\* C19: UnmapMemory on an object without an active mapping returns success
\* and changes nothing: no driver unmap, no allocator call, no record touched.
C19_UnmapUnknownIsNoOp ==
    [][(map_last'.op = "UnmapMemory" /\ ~mappings[map_last'.memory].mapped) =>
           /\ map_last'.ret = "VK_SUCCESS"
           /\ ~map_last'.driver_unmapped
           /\ UNCHANGED <<mappings, driver_mapped, os_fixed, ranges, allocations,
                           capacity, fault>>]_vars

\* C19 witness: an UnmapMemory of an object that has no mapping (never mapped,
\* or unmapped before) has returned while another object stays mapped.
C19_Witness ==
    /\ map_last.op = "UnmapMemory" /\ map_last.path = "not_mapped"
    /\ ~driver_mapped[map_last.memory]
    /\ \E m \in Mems \ {map_last.memory} : mappings[m].mapped /\ mappings[m].is_placed

-----------------------------------------------------------------------------
(* Instance lifecycle: ICD entry points and the surface calls *)

MaxRefs == 2
MinRefs == 0 - 1
MaxDestroyCalls == 2

LifeCall(op, instance, refs, mark) ==
    [op |-> op, instance |-> instance, ref_count |-> refs, marked |-> mark]

add_instance_reference_any(counts, tracked, instance) ==
    [counts EXCEPT ![instance] = @ + 1]

\* add_instance_reference: declared in wsi_manager.hpp, defined nowhere in
\* the sources; modelled after the specification's AddReference: one atomic
\* increment, no-op on an untracked handle.
add_instance_reference(counts, tracked, instance) ==
    IF instance \in tracked
    THEN [counts EXCEPT ![instance] = @ + 1]
    ELSE counts

\* remove_instance_reference: likewise modelled after the specification's
\* RemoveReference: one atomic step that decrements and, if the instance is
\* marked and the count reached <= 0, erases the record and has the driver
\* destroy the instance. Result: [counts, tracked, destroy].
remove_instance_reference(counts, marks, tracked, instance) ==
    IF instance \notin tracked
    THEN [counts |-> counts, tracked |-> tracked, destroy |-> FALSE]
    ELSE LET c == [counts EXCEPT ![instance] = @ - 1] IN
         IF marks[instance] /\ c[instance] <= 0
         THEN [counts |-> c, tracked |-> tracked \ {instance}, destroy |-> TRUE]
         ELSE [counts |-> c, tracked |-> tracked, destroy |-> FALSE]

\* The driver's vkDestroyInstance on a handle.
DriverDestroy(instance) ==
    /\ driver_live' = driver_live \ {instance}
    /\ destroy_calls' = [destroy_calls EXCEPT
                           ![instance] = IF @ < MaxDestroyCalls THEN @ + 1 ELSE @]

Idle(t) == pc[t] = "idle"

\* internal_vkCreateInstance without the insert at line 256: the created
\* instance gets its record state but is not entered into managed_instances.
internal_vkCreateInstanceNotInserted(t, instance, ok) ==
    /\ ~fault /\ Idle(t)
    /\ instance \notin driver_live
    /\ IF ok THEN
           /\ driver_live' = driver_live \cup {instance}
           /\ destroy_calls' = [destroy_calls EXCEPT ![instance] = 0]
           /\ ref_count' = [ref_count EXCEPT ![instance] = 1]
           /\ marked' = [marked EXCEPT ![instance] = FALSE]
           /\ life_last' = LifeCall("vkCreateInstance", instance, 1, FALSE)
           /\ UNCHANGED managed_instances
       ELSE
           /\ life_last' = LifeCall("vkCreateInstance_failed", instance, 0, FALSE)
           /\ UNCHANGED <<managed_instances, driver_live, destroy_calls, ref_count, marked>>
    /\ UNCHANGED <<pc, targ, allocVars, mapVars>>

\* internal_vkCreateInstance: the driver creates an instance (its handle is
\* one the driver does not hold live) or fails. A created instance is
\* inserted into managed_instances; its record starts with one reference
\* and unmarked (the specification's RegisterInstance).
internal_vkCreateInstance(t, instance, ok) ==
    /\ ~fault /\ Idle(t)
    /\ instance \notin driver_live
    /\ IF ok THEN
           /\ managed_instances' = managed_instances \cup {instance}
           /\ driver_live' = driver_live \cup {instance}
           /\ destroy_calls' = [destroy_calls EXCEPT ![instance] = 0]
           /\ ref_count' = [ref_count EXCEPT ![instance] = 1]
           /\ marked' = [marked EXCEPT ![instance] = FALSE]
           /\ life_last' = LifeCall("vkCreateInstance", instance, 1, FALSE)
       ELSE
           /\ life_last' = LifeCall("vkCreateInstance_failed", instance, 0, FALSE)
           /\ UNCHANGED <<managed_instances, driver_live, destroy_calls, ref_count, marked>>
    /\ UNCHANGED <<pc, targ, allocVars, mapVars>>

\* internal_vkDestroyInstance, lines 273-282: the lookup. Nothing is locked,
\* so the rest of the function is a separate step.
DestroyInstanceFind(t, instance) ==
    /\ ~fault /\ Idle(t)
    /\ IF instance \in managed_instances THEN
           /\ pc' = [pc EXCEPT ![t] = "call"]
           /\ targ' = [targ EXCEPT ![t] = [instance |-> instance,
                                           refs |-> ref_count[instance]]]
           /\ life_last' = LifeCall("vkDestroyInstance", instance,
                                    ref_count[instance], marked[instance])
       ELSE
           /\ life_last' = LifeCall("vkDestroyInstance_unmanaged", instance, 0, FALSE)
           /\ UNCHANGED <<pc, targ>>
    /\ UNCHANGED <<managed_instances, ref_count, marked, driver_live, destroy_calls,
                   allocVars, mapVars>>

\* internal_vkDestroyInstance, lines 284-295: the driver's destroy, when the
\* driver exports it. Destroying a handle the driver no longer holds is
\* undefined inside the driver: the call returns or the process dies.
DestroyInstanceCall(t, available, dies) ==
    LET instance == targ[t].instance IN
    /\ ~fault /\ pc[t] = "call"
    /\ pc' = [pc EXCEPT ![t] = "erase"]
    /\ IF available THEN
           /\ DriverDestroy(instance)
           /\ fault' = (dies /\ instance \notin driver_live)
           /\ life_last' = LifeCall("mali_destroy", instance,
                                    ref_count[instance], marked[instance])
       ELSE
           /\ ~dies
           /\ life_last' = LifeCall("mali_destroy_unavailable", instance,
                                    ref_count[instance], marked[instance])
           /\ UNCHANGED <<driver_live, destroy_calls, fault>>
    /\ UNCHANGED <<managed_instances, ref_count, marked, targ,
                   ranges, allocations, capacity, hist, mapVars>>

\* internal_vkDestroyInstance, lines 297-299: erase through the iterator
\* found earlier. If another thread erased the element meanwhile the
\* iterator is invalid: the erase does nothing or the process dies.
DestroyInstanceErase(t, dies) ==
    LET instance == targ[t].instance IN
    /\ ~fault /\ pc[t] = "erase"
    /\ pc' = [pc EXCEPT ![t] = "idle"]
    /\ targ' = [targ EXCEPT ![t] = NoTarget]
    /\ managed_instances' = managed_instances \ {instance}
    /\ fault' = (dies /\ instance \notin managed_instances)
    /\ life_last' = LifeCall("erase", instance, ref_count[instance], marked[instance])
    /\ UNCHANGED <<ref_count, marked, driver_live, destroy_calls,
                   ranges, allocations, capacity, hist, mapVars>>

ApplyRemove(r, instance) ==
    /\ ref_count' = r.counts
    /\ managed_instances' = r.tracked
    /\ IF r.destroy THEN DriverDestroy(instance)
       ELSE UNCHANGED <<driver_live, destroy_calls>>

\* WSIManager::create_surface_xcb / _xlib / _wayland, first half: take a
\* reference, then call the backend.
CreateSurfaceBegin(t, instance) ==
    /\ ~fault /\ Idle(t)
    /\ ref_count[instance] < MaxRefs
    /\ ref_count' = add_instance_reference(ref_count, managed_instances, instance)
    /\ pc' = [pc EXCEPT ![t] = "surface"]
    /\ targ' = [targ EXCEPT ![t] = [instance |-> instance, refs |-> ref_count[instance]]]
    /\ life_last' = LifeCall("add_instance_reference", instance,
                             ref_count'[instance], marked[instance])
    /\ UNCHANGED <<managed_instances, marked, driver_live, destroy_calls,
                   allocVars, mapVars>>

\* The second half without lines 351-353: a failed backend call keeps the
\* reference.
CreateSurfaceEndKeepsReference(t, ok) ==
    LET instance == targ[t].instance IN
    /\ ~fault /\ pc[t] = "surface"
    /\ pc' = [pc EXCEPT ![t] = "idle"]
    /\ targ' = [targ EXCEPT ![t] = NoTarget]
    /\ life_last' = LifeCall(IF ok THEN "create_surface" ELSE "create_surface_failed",
                             instance, ref_count[instance], marked[instance])
    /\ UNCHANGED <<ref_count, managed_instances, driver_live, destroy_calls,
                   marked, allocVars, mapVars>>

\* Second half: the backend returned; on failure the reference is dropped.
CreateSurfaceEnd(t, ok) ==
    LET instance == targ[t].instance
        r == remove_instance_reference(ref_count, marked, managed_instances, instance)
    IN
    /\ ~fault /\ pc[t] = "surface"
    /\ pc' = [pc EXCEPT ![t] = "idle"]
    /\ targ' = [targ EXCEPT ![t] = NoTarget]
    /\ IF ok THEN
           /\ life_last' = LifeCall("create_surface", instance,
                                    ref_count[instance], marked[instance])
           /\ UNCHANGED <<ref_count, managed_instances, driver_live, destroy_calls>>
       ELSE
           /\ ApplyRemove(r, instance)
           /\ life_last' = LifeCall("create_surface_failed", instance,
                                    r.counts[instance], marked[instance])
    /\ UNCHANGED <<marked, allocVars, mapVars>>

\* WSIManager::destroy_surface of a real (non-dummy) surface.
destroy_surface(t, instance) ==
    LET r == remove_instance_reference(ref_count, marked, managed_instances, instance) IN
    /\ ~fault /\ Idle(t)
    /\ ref_count[instance] > MinRefs
    /\ ApplyRemove(r, instance)
    /\ life_last' = LifeCall("destroy_surface", instance, r.counts[instance], marked[instance])
    /\ UNCHANGED <<marked, pc, targ, allocVars, mapVars>>

\* WSIManager::create_surface_headless: a dummy handle is returned, no
\* reference is taken.
create_surface_headless(t, instance) ==
    /\ ~fault /\ Idle(t)
    /\ life_last' = LifeCall("create_surface_headless", instance,
                             ref_count[instance], marked[instance])
    /\ UNCHANGED <<managed_instances, ref_count, marked, driver_live, destroy_calls,
                   pc, targ, allocVars, mapVars>>

\* WSIManager::destroy_surface of a dummy surface, lines 395-398.
destroy_surface_dummy(t, instance) ==
    /\ ~fault /\ Idle(t)
    /\ life_last' = LifeCall("destroy_surface_dummy", instance,
                             ref_count[instance], marked[instance])
    /\ UNCHANGED <<managed_instances, ref_count, marked, driver_live, destroy_calls,
                   pc, targ, allocVars, mapVars>>

-----------------------------------------------------------------------------
(* SpecLife: the lifecycle entry points called from NumThreads threads *)

NextLife ==
    \/ \E t \in Threads, instance \in Handles, ok \in BOOLEAN :
          internal_vkCreateInstance(t, instance, ok) /\ UNCHANGED outerVars
    \/ \E t \in Threads, instance \in Handles :
          DestroyInstanceFind(t, instance) /\ UNCHANGED outerVars
    \/ \E t \in Threads, available \in BOOLEAN, dies \in BOOLEAN :
          DestroyInstanceCall(t, available, dies) /\ UNCHANGED outerVars
    \/ \E t \in Threads, dies \in BOOLEAN : DestroyInstanceErase(t, dies) /\ UNCHANGED outerVars
    \/ \E t \in Threads, instance \in Handles :
          CreateSurfaceBegin(t, instance) /\ UNCHANGED outerVars
    \/ \E t \in Threads, ok \in BOOLEAN : CreateSurfaceEnd(t, ok) /\ UNCHANGED outerVars
    \/ \E t \in Threads, instance \in Handles :
          destroy_surface(t, instance) /\ UNCHANGED outerVars
    \/ \E t \in Threads, instance \in Handles :
          create_surface_headless(t, instance) /\ UNCHANGED outerVars
    \/ \E t \in Threads, instance \in Handles :
          destroy_surface_dummy(t, instance) /\ UNCHANGED outerVars

SpecLife == Init /\ [][NextLife]_vars

-----------------------------------------------------------------------------
(* Claims about the lifecycle, checked under SpecLife *)

DriverDestroyed == life_last.op = "mali_destroy"

\* C1: the driver-level destroy of an instance fires exactly once, and only
\* in a state where the instance is marked for destruction and its reference
\* count is <= 0.
C1_DestroyOnceWhenMarkedAndUnreferenced ==
    (~fault /\ DriverDestroyed) =>
        /\ life_last.marked
        /\ life_last.ref_count <= 0
        /\ destroy_calls[life_last.instance] = 1

NoDoubleDestroy == \A h \in Handles : destroy_calls[h] <= 1

InProgress(h) == \E t \in Threads : pc[t] # "idle" /\ targ[t].instance = h

NoLeak ==
    \A h \in managed_instances :
        (marked[h] /\ ref_count[h] <= 0 /\ ~InProgress(h)) => h \notin driver_live

\* The reference count a destroy request saw at its lookup is the count
\* that holds when it acts on the driver.
CheckAndActAtomic ==
    \A t \in Threads :
        pc[t] = "call" => ref_count[targ[t].instance] = targ[t].refs

\* C2: with the entry points running on different threads, the count
\* update / mark and the check "marked and count <= 0" are one atomic step:
\* no interleaving destroys an instance twice in the driver, none leaves a
\* marked instance with count <= 0 undestroyed.
C2_AtomicCheckAndAct ==
    ~fault => (NoDoubleDestroy /\ NoLeak /\ CheckAndActAtomic)

\* C3: a destroy request on an instance whose count is > 0 only marks it:
\* the record stays tracked and the driver destroy does not happen until a
\* later release brings the count to <= 0.
C3_DestroyRequestDefersWhileReferenced ==
    \A t \in Threads :
        (~fault /\ pc[t] \in {"call", "erase"} /\ targ[t].refs > 0) =>
            /\ marked[targ[t].instance]
            /\ pc[t] = "call"
            /\ targ[t].instance \in managed_instances
            /\ targ[t].instance \in driver_live

\* The last step was a reference call on a handle that is not tracked.
ReferenceCallOnUntracked ==
    /\ life_last.op \in {"add_instance_reference", "create_surface_failed", "destroy_surface"}
    /\ life_last.instance \notin managed_instances

\* C20: add_instance_reference and remove_instance_reference on a handle
\* that is not tracked change no tracked state, create no record and cause
\* no driver-level destroy.
C20_ReferenceCallsIgnoreUntracked ==
    [][(/\ life_last'.op \in {"add_instance_reference", "create_surface_failed",
                              "destroy_surface"}
        /\ life_last'.instance \notin managed_instances) =>
           UNCHANGED <<managed_instances, ref_count, marked, driver_live,
                       destroy_calls>>]_vars

\* C20 witness: a reference call on a handle that was tracked, then
\* destroyed and erased, has returned.
C20_Witness ==
    /\ ~fault /\ ReferenceCallOnUntracked
    /\ destroy_calls[life_last.instance] = 1
    /\ life_last.instance \notin driver_live

-----------------------------------------------------------------------------
(* Function resolution of the ICD (mali_wrapper_icd.cpp)                   *)

\* A function pointer is the library that implements it and the symbol.
Wrapper(symbol) == [owner |-> "wrapper", symbol |-> <<symbol>>]
MaliFn(name) == [owner |-> "mali", symbol |-> name]
WsiFn(name) == [owner |-> "wsi", symbol |-> name]
WsiLayerSymbol(name) == [owner |-> "wsi", symbol |-> <<"wsi_layer_">> \o name]
stub_function == [owner |-> "stub", symbol |-> <<"VK_ERROR_FEATURE_NOT_PRESENT">>]

Plain(s) == <<s>>

\* strstr(pName, needle) on a name cut into pieces at the needles.
strstr(name, needle) == \E i \in DOMAIN name : name[i] = needle

\* The static set wsi_functions.
wsi_functions == {Plain(n) : n \in {
    "vkCreateXlibSurfaceKHR", "vkCreateXcbSurfaceKHR", "vkCreateWaylandSurfaceKHR",
    "vkCreateDisplaySurfaceKHR", "vkCreateHeadlessSurfaceEXT", "vkDestroySurfaceKHR",
    "vkGetPhysicalDeviceSurfaceSupportKHR", "vkGetPhysicalDeviceSurfaceCapabilitiesKHR",
    "vkGetPhysicalDeviceSurfaceCapabilities2KHR", "vkGetPhysicalDeviceSurfaceFormatsKHR",
    "vkGetPhysicalDeviceSurfaceFormats2KHR", "vkGetPhysicalDeviceSurfacePresentModesKHR",
    "vkCreateSwapchainKHR", "vkCreateSharedSwapchainsKHR", "vkDestroySwapchainKHR",
    "vkGetSwapchainImagesKHR", "vkAcquireNextImageKHR", "vkAcquireNextImage2KHR",
    "vkQueuePresentKHR", "vkGetSwapchainStatusKHR", "vkReleaseSwapchainImagesEXT",
    "vkGetPhysicalDeviceDisplayPropertiesKHR", "vkGetPhysicalDeviceDisplayProperties2KHR",
    "vkGetPhysicalDeviceDisplayPlanePropertiesKHR",
    "vkGetPhysicalDeviceDisplayPlaneProperties2KHR",
    "vkGetDisplayPlaneSupportedDisplaysKHR", "vkGetDisplayModePropertiesKHR",
    "vkGetDisplayModeProperties2KHR", "vkCreateDisplayModeKHR",
    "vkGetDisplayPlaneCapabilitiesKHR", "vkGetDisplayPlaneCapabilities2KHR",
    "vkGetSwapchainTimingPropertiesEXT", "vkGetSwapchainTimeDomainPropertiesEXT",
    "vkGetPastPresentationTimingEXT", "vkSetSwapchainPresentTimingQueueSizeEXT",
    "vkGetPhysicalDeviceWaylandPresentationSupportKHR",
    "vkGetPhysicalDeviceXlibPresentationSupportKHR",
    "vkGetPhysicalDeviceXcbPresentationSupportKHR"}}

IsWSIFunction(name) == name \in wsi_functions

\* The names the application asks for: the null name, the administrative
\* functions, two WSI functions, one name of each refused feature, an
\* extension function and an ordinary driver function.
RouteNames == {NullName} \cup
    {Plain(n) : n \in {
        "vkGetInstanceProcAddr", "vkCreateInstance", "vkDestroyInstance",
        "vkCreateDevice", "vkDestroyDevice", "vkGetDeviceProcAddr",
        "vkEnumerateInstanceExtensionProperties",
        "vkCreateSwapchainKHR", "vkQueuePresentKHR", "vkDestroySurfaceKHR",
        "vkMapMemory2KHR", "vkCmdDraw"}} \cup
    {<<"vkCreate", "RayTracing", "PipelinesKHR">>, <<"vkCmdDraw", "MeshTask", "sEXT">>}

\* What the collaborators answer during one call: mali, the driver
\* implements the requested name; gdpa, the driver's instance-level
\* resolver returns its vkGetDeviceProcAddr; wsi, the WSI layer implements
\* the requested name (through its resolver and as an exported symbol).
Answers == [mali : BOOLEAN, gdpa : BOOLEAN, wsi : BOOLEAN]

\* The driver's vk_icdGetInstanceProcAddr and the resolver it returns for
\* "vkGetDeviceProcAddr".
mali_proc_addr(env, name) ==
    IF name = Plain("vkGetDeviceProcAddr")
    THEN (IF env.gdpa THEN MaliFn(name) ELSE NullFn)
    ELSE (IF env.mali THEN MaliFn(name) ELSE NullFn)

mali_get_device_proc_addr(env, name) == mali_proc_addr(env, name)

\* The WSI layer's negotiated resolver, and dlsym on the WSI library.
wsi_proc_addr(env, name) == IF env.wsi THEN WsiFn(name) ELSE NullFn
wsi_dlsym(env, name) == IF env.wsi THEN WsiLayerSymbol(name) ELSE NullFn

\* The result of a resolver: the pointer returned and the collaborators
\* whose resolver was called with the requested name.
Resolved(ret, asked) == [ret |-> ret, asked |-> asked]

\* filtered_mali_get_instance_proc_addr, the next-resolver handed to the WSI
\* layer: WSI names are hidden, vkCreateDevice is the wrapper's driver-side
\* create, every other name is forwarded to the driver.
filtered_mali_get_instance_proc_addr(loader, env, name) ==
    IF name = NullName THEN Resolved(NullFn, {})
    ELSE IF IsWSIFunction(name) THEN Resolved(NullFn, {})
    ELSE IF name = Plain("vkCreateDevice")
    THEN Resolved(Wrapper("mali_driver_create_device"), {})
    ELSE IF loader.mali_get_instance_proc_addr
    THEN Resolved(mali_proc_addr(env, name), {"mali"})
    ELSE Resolved(NullFn, {})

\* internal_vkGetInstanceProcAddr. A WSI resolver that throws is caught and
\* behaves as one that returns null.
internal_vkGetInstanceProcAddr(loader, env, name) ==
    IF name = NullName THEN Resolved(NullFn, {})
    ELSE IF name = Plain("vkGetInstanceProcAddr")
    THEN Resolved(Wrapper("internal_vkGetInstanceProcAddr"), {})
    ELSE IF name = Plain("vkCreateInstance")
    THEN Resolved(Wrapper("internal_vkCreateInstance"), {})
    ELSE IF name = Plain("vkDestroyInstance")
    THEN Resolved(Wrapper("internal_vkDestroyInstance"), {})
    ELSE IF name = Plain("vkEnumerateInstanceExtensionProperties")
    THEN Resolved(Wrapper("internal_vkEnumerateInstanceExtensionProperties"), {})
    ELSE IF name = Plain("vkGetDeviceProcAddr")
    THEN Resolved(Wrapper("internal_vkGetDeviceProcAddr"), {})
    ELSE IF name = Plain("vkCreateDevice")
    THEN Resolved(Wrapper("internal_vkCreateDevice"), {})
    ELSE
        LET tried == IsWSIFunction(name) /\ loader.wsi_get_instance_proc_addr
            func == IF tried THEN wsi_proc_addr(env, name) ELSE NullFn
            asked == IF tried THEN {"wsi"} ELSE {}
        IN  IF func # NullFn THEN Resolved(func, asked)
            ELSE IF loader.mali_get_instance_proc_addr
            THEN Resolved(mali_proc_addr(env, name), asked \cup {"mali"})
            ELSE Resolved(NullFn, asked)

\* Two device handles are similar when their low bits agree
\* (device_ptr & 0xFFFFFFFF in the source, one bit here).
DeviceLowMod == 2
Low(device) == device % DeviceLowMod

\* GetCanonicalDevice: the mapped handle, or the canonical handle of a
\* registered device with the same low bits (found in the unordered map's
\* iteration order, and then cached), or the handle itself. The set of
\* possible [canonical, map] results.
GetCanonicalDevice(map, device) ==
    IF map[device] # Null THEN {[canonical |-> map[device], map |-> map]}
    ELSE LET similar == {r \in Devices : map[r] # Null /\ Low(r) = Low(device)} IN
         IF similar # {}
         THEN {[canonical |-> map[r], map |-> [map EXCEPT ![device] = map[r]]]
               : r \in similar}
         ELSE {[canonical |-> device, map |-> map]}

\* internal_vkGetDeviceProcAddr, lines 488-550: a WSI name other than
\* vkCreateSwapchainKHR. layer_device says whether the WSI library exports
\* wsi_layer_vkCreateDevice. The set of possible [ret, asked, map] results.
WsiDeviceFunction(loader, map, env, layer_device, device, name) ==
    {LET registered == IF c.map = NoDevices /\ loader.wsi_handle /\ layer_device
                       THEN [c.map EXCEPT ![c.canonical] = c.canonical] ELSE c.map
         func == IF loader.wsi_handle THEN wsi_dlsym(env, name) ELSE NullFn
         asked == IF loader.wsi_handle THEN {"wsi"} ELSE {}
     IN  [ret |-> IF func # NullFn THEN func ELSE stub_function,
          asked |-> asked, map |-> registered]
     : c \in GetCanonicalDevice(map, device)}

\* internal_vkGetDeviceProcAddr. The set of possible [ret, asked, map]
\* results.
internal_vkGetDeviceProcAddr(loader, managed, map, env, layer_device, device, name) ==
    LET Only(ret, asked) == {[ret |-> ret, asked |-> asked, map |-> map]} IN
    IF name = NullName THEN Only(NullFn, {})
    ELSE IF name = Plain("vkCreateSwapchainKHR")
    THEN Only(Wrapper("wrapper_vkCreateSwapchainKHR"), {})
    ELSE IF IsWSIFunction(name)
    THEN WsiDeviceFunction(loader, map, env, layer_device, device, name)
    ELSE IF name = Plain("vkGetDeviceProcAddr")
    THEN Only(Wrapper("internal_vkGetDeviceProcAddr"), {})
    ELSE IF strstr(name, "RayTracing") \/ strstr(name, "MeshTask")
    THEN Only(NullFn, {})
    ELSE IF loader.mali_get_instance_proc_addr /\ managed # {}
    THEN IF mali_proc_addr(env, Plain("vkGetDeviceProcAddr")) # NullFn
         THEN Only(mali_get_device_proc_addr(env, name), {"mali"})
         ELSE Only(NullFn, {})
    ELSE Only(NullFn, {})

\* filtered_mali_get_device_proc_addr, the next device resolver handed to
\* the WSI layer.
filtered_mali_get_device_proc_addr(loader, managed, env, name) ==
    IF name = NullName THEN Resolved(NullFn, {})
    ELSE IF IsWSIFunction(name) THEN Resolved(NullFn, {})
    ELSE IF name = Plain("vkGetDeviceProcAddr")
    THEN Resolved(Wrapper("internal_vkGetDeviceProcAddr"), {})
    ELSE IF loader.mali_get_instance_proc_addr /\ managed # {}
    THEN IF mali_proc_addr(env, Plain("vkGetDeviceProcAddr")) # NullFn
         THEN Resolved(mali_get_device_proc_addr(env, name), {"mali"})
         ELSE Resolved(NullFn, {})
    ELSE Resolved(NullFn, {})

-----------------------------------------------------------------------------
(* SpecIcd: the resolvers of the ICD, with one instance and NumDevices     *)
(* devices created and destroyed around them                               *)

Resolution(entry, name, env, r) ==
    [entry |-> entry, name |-> name, mali |-> env.mali, gdpa |-> env.gdpa,
     wsi |-> env.wsi, ret |-> r.ret, asked |-> r.asked]

\* LibraryLoader::LoadLibraries: the driver is loaded first, then the WSI
\* layer; a failure returns at once and keeps what was set before it.
LoadOutcomes == {"ok", "mali_dlopen", "mali_create_instance", "wsi_dlopen", "wsi_negotiate"}

LoadLibraries(outcome) ==
    [mali_get_instance_proc_addr |-> outcome # "mali_dlopen",
     wsi_handle |-> outcome \in {"ok", "wsi_negotiate"},
     wsi_get_instance_proc_addr |-> outcome = "ok"]

\* vk_icdGetInstanceProcAddr (and its alias vkGetInstanceProcAddr): the
\* first call with a name initialises the wrapper; then
\* internal_vkGetInstanceProcAddr.
vk_icdGetInstanceProcAddr(name, env, outcome) ==
    /\ ~fault
    /\ IF name = NullName THEN
           /\ route_last' = Resolution("vk_icdGetInstanceProcAddr", name, env,
                                       Resolved(NullFn, {}))
           /\ UNCHANGED <<initialized, library_loader>>
       ELSE IF ~initialized /\ outcome # "ok" THEN
           /\ library_loader' = LoadLibraries(outcome)
           /\ route_last' = Resolution("vk_icdGetInstanceProcAddr", name, env,
                                       Resolved(NullFn, {}))
           /\ UNCHANGED initialized
       ELSE
           /\ outcome = "ok"
           /\ initialized' = TRUE
           /\ library_loader' = IF initialized THEN library_loader ELSE LoadLibraries("ok")
           /\ route_last' = Resolution("vk_icdGetInstanceProcAddr", name, env,
                  internal_vkGetInstanceProcAddr(library_loader', env, name))
    /\ UNCHANGED <<device_handle_map, allocVars, mapVars, lifeVars>>

\* internal_vkGetDeviceProcAddr, reached through the pointer that
\* internal_vkGetInstanceProcAddr hands out.
GetDeviceProcAddr(device, name, env, layer_device) ==
    /\ ~fault /\ initialized
    /\ \E r \in internal_vkGetDeviceProcAddr(library_loader, managed_instances,
                    device_handle_map, env, layer_device, device, name) :
          /\ device_handle_map' = r.map
          /\ route_last' = Resolution("internal_vkGetDeviceProcAddr", name, env, r)
    /\ UNCHANGED <<initialized, library_loader, allocVars, mapVars, lifeVars>>

\* The WSI layer calls the next-resolvers it was given at instance and
\* device creation.
NextGetInstanceProcAddr(name, env) ==
    /\ ~fault /\ initialized
    /\ route_last' = Resolution("filtered_mali_get_instance_proc_addr", name, env,
           filtered_mali_get_instance_proc_addr(library_loader, env, name))
    /\ UNCHANGED <<initialized, library_loader, device_handle_map,
                   allocVars, mapVars, lifeVars>>

NextGetDeviceProcAddr(name, env) ==
    /\ ~fault /\ initialized
    /\ route_last' = Resolution("filtered_mali_get_device_proc_addr", name, env,
           filtered_mali_get_device_proc_addr(library_loader, managed_instances, env, name))
    /\ UNCHANGED <<initialized, library_loader, device_handle_map,
                   allocVars, mapVars, lifeVars>>

\* internal_vkCreateDevice: the device is created through the WSI layer's
\* exported wsi_layer_vkCreateDevice and registered as its own canonical
\* handle.
internal_vkCreateDevice(device, layer_device, ok) ==
    /\ ~fault /\ initialized
    /\ device_handle_map' =
          IF library_loader.wsi_handle /\ layer_device /\ ok
          THEN [device_handle_map EXCEPT ![device] = device]
          ELSE device_handle_map
    /\ UNCHANGED <<initialized, library_loader, route_last, allocVars, mapVars, lifeVars>>

\* One application thread creates and destroys one instance.
IcdThreads == {1}
IcdInstances == {1}

\* The answers that can differ in what a call observes: the WSI layer is
\* asked for WSI names only, the driver is asked for "vkGetDeviceProcAddr"
\* by the device-level resolvers and when that is the requested name, and
\* nobody is asked anything for a null name.
InstanceAnswers(name) ==
    {env \in Answers : /\ env.wsi => IsWSIFunction(name)
                       /\ env.gdpa => name = Plain("vkGetDeviceProcAddr")
                       /\ env.mali => name \notin {NullName, Plain("vkGetDeviceProcAddr")}}

DeviceAnswers(name) ==
    {env \in Answers : /\ env.wsi => IsWSIFunction(name)
                       /\ env.gdpa => name # NullName
                       /\ env.mali => name \notin {NullName, Plain("vkGetDeviceProcAddr")}}

\* The device handle and the WSI library's exports matter to WSI names only.
DeviceInputs(name) ==
    IF IsWSIFunction(name) THEN Devices \X BOOLEAN ELSE {<<1, FALSE>>}

NextIcd ==
    \/ \E name \in RouteNames : \E env \in InstanceAnswers(name) :
          \E outcome \in (IF initialized \/ name = NullName THEN {"ok"} ELSE LoadOutcomes) :
             vk_icdGetInstanceProcAddr(name, env, outcome) /\ UNCHANGED nonIcdVars
    \/ \E name \in RouteNames : \E env \in DeviceAnswers(name), d \in DeviceInputs(name) :
          GetDeviceProcAddr(d[1], name, env, d[2]) /\ UNCHANGED nonIcdVars
    \/ \E name \in RouteNames : \E env \in InstanceAnswers(name) :
          NextGetInstanceProcAddr(name, env) /\ UNCHANGED nonIcdVars
    \/ \E name \in RouteNames : \E env \in DeviceAnswers(name) :
          NextGetDeviceProcAddr(name, env) /\ UNCHANGED nonIcdVars
    \/ \E device \in Devices, layer_device \in BOOLEAN, ok \in BOOLEAN :
          internal_vkCreateDevice(device, layer_device, ok) /\ UNCHANGED nonIcdVars
    \/ \E t \in IcdThreads, instance \in IcdInstances :
          initialized /\ internal_vkCreateInstance(t, instance, TRUE) /\ UNCHANGED outerVars
    \/ \E t \in IcdThreads, instance \in IcdInstances :
          DestroyInstanceFind(t, instance) /\ UNCHANGED outerVars
    \/ \E t \in IcdThreads : DestroyInstanceCall(t, TRUE, FALSE) /\ UNCHANGED outerVars
    \/ \E t \in IcdThreads : DestroyInstanceErase(t, FALSE) /\ UNCHANGED outerVars

SpecIcd == Init /\ [][NextIcd]_vars

-----------------------------------------------------------------------------
(* Claims about function resolution, checked under SpecIcd *)

\* The resolvers the application calls, once the wrapper is initialised.
AppEntries == {"vk_icdGetInstanceProcAddr", "internal_vkGetDeviceProcAddr"}

AppResolution == initialized /\ route_last.entry \in AppEntries

\* The wrapper-intrinsic names: the resolver itself, create and destroy
\* instance, create and destroy device.
IntrinsicNames == {Plain(n) : n \in {"vkGetInstanceProcAddr", "vkCreateInstance",
                                     "vkDestroyInstance", "vkCreateDevice",
                                     "vkDestroyDevice"}}

\* C13: a resolution of a wrapper-intrinsic name returns the wrapper's own
\* implementation, never a pointer of the driver or of the WSI layer,
\* whatever the driver answers for the name.
C13_IntrinsicNamesServedByWrapper ==
    (AppResolution /\ route_last.name \in IntrinsicNames)
        => route_last.ret.owner = "wrapper"

\* The WSI layer supplies a function for the requested WSI name.
ServedByWsi == IsWSIFunction(route_last.name) /\ route_last.wsi

\* C14: a WSI-owned name for which the WSI layer supplies a function
\* resolves to that function, and the driver's resolver is asked only for
\* names that are neither wrapper-intrinsic nor served by the WSI layer.
C14_WsiNamesServedByWsiLayer ==
    AppResolution =>
        /\ ServedByWsi => route_last.ret.owner = "wsi"
        /\ "mali" \in route_last.asked =>
               (route_last.name \notin IntrinsicNames /\ ~ServedByWsi)

\* C15: a request for vkGetDeviceProcAddr, through any resolver of the
\* wrapper (the two the application calls and the two handed to the WSI
\* layer), returns the wrapper's own device resolver and never the driver's.
C15_DriverDeviceResolverNeverReturned ==
    (initialized /\ route_last.entry # "none"
                 /\ route_last.name = Plain("vkGetDeviceProcAddr"))
        => /\ route_last.ret # MaliFn(Plain("vkGetDeviceProcAddr"))
           /\ route_last.ret = Wrapper("internal_vkGetDeviceProcAddr")

\* The name matches a feature the driver is known to be unstable on.
UnstableFeature(name) == strstr(name, "RayTracing") \/ strstr(name, "MeshTask")

\* C16: a request for a name containing "RayTracing" or "MeshTask" is
\* refused with a null pointer and the driver is not asked for it, on the
\* instance-level and on the device-level resolver.
C16_UnstableFeaturesRefused ==
    (AppResolution /\ UnstableFeature(route_last.name))
        => /\ route_last.ret = NullFn
           /\ "mali" \notin route_last.asked

\* The names the wrapper implements itself.
WrapperImplemented == {Plain(n) : n \in {
    "vkGetInstanceProcAddr", "vkCreateInstance", "vkDestroyInstance",
    "vkEnumerateInstanceExtensionProperties", "vkGetDeviceProcAddr",
    "vkCreateDevice", "vkCreateSwapchainKHR"}}

\* C17: a name that neither the wrapper nor the WSI layer nor the driver
\* implements resolves to the null pointer, on the instance-level and on
\* the device-level resolver.
C17_UnsupportedNameIsNull ==
    (AppResolution /\ route_last.name \notin WrapperImplemented
                   /\ ~route_last.wsi /\ ~route_last.mali)
        => route_last.ret = NullFn

-----------------------------------------------------------------------------
(* Further claims about the instance lifecycle, checked under SpecLife *)

C30_SurfaceReferenceBalance ==
    [][LET op == life_last'.op
           instance == life_last'.instance
           tracked == instance \in managed_instances
       IN  op \in {"add_instance_reference", "create_surface", "create_surface_failed",
                   "destroy_surface", "create_surface_headless", "destroy_surface_dummy"} =>
           /\ (op = "add_instance_reference" /\ tracked) =>
                 ref_count'[instance] = ref_count[instance] + 1
           /\ op = "create_surface" => ref_count' = ref_count
           /\ (op \in {"create_surface_failed", "destroy_surface"} /\ tracked) =>
                 ref_count'[instance] = ref_count[instance] - 1
           /\ op \in {"create_surface_headless", "destroy_surface_dummy"} =>
                 ref_count' = ref_count /\ managed_instances' = managed_instances
           /\ \A h \in Handles \ {instance} : ref_count'[h] = ref_count[h]]_vars

\* C30 witness: the backend failed for a surface of a tracked instance that
\* held its creation reference only, and the count is back at 1.
C30_Witness ==
    /\ ~fault /\ life_last.op = "create_surface_failed"
    /\ life_last.instance \in managed_instances
    /\ ref_count[life_last.instance] = 1
    /\ life_last.ref_count = 1

-----------------------------------------------------------------------------
(* Further claims about initialisation, checked under SpecIcd *)

\* C22: as long as initialisation has not succeeded, every call of the
\* entry point has returned null and nothing of a failed attempt is kept:
\* no library is loaded and no resolver pointer is set.
C22_FailedInitKeepsNothing ==
    ~initialized =>
        /\ library_loader = NoLibraries
        /\ route_last.entry = "vk_icdGetInstanceProcAddr" => route_last.ret = NullFn

-----------------------------------------------------------------------------
(* SpecEntry: vk_icdGetInstanceProcAddr called from two threads.  The      *)
(* function holds no lock, so a call is a sequence of steps that           *)
(* interleave with the steps of the other thread's call: the test of the   *)
(* static flag, InitializeWrapper, the store to the flag, the resolution.  *)

EntryNames == {NullName, Plain("vkCreateInstance"), Plain("vkCmdDraw")}

\* Lines 852-858: a null pName returns null; otherwise the flag is read.
EntryCheck(t, name) ==
    /\ ~fault /\ entry_pc[t] = "idle"
    /\ IF name = NullName THEN
           /\ route_last' = Resolution("vk_icdGetInstanceProcAddr", name,
                                       CHOOSE env \in InstanceAnswers(name) : TRUE,
                                       Resolved(NullFn, {}))
           /\ UNCHANGED <<entry_pc, entry_name>>
       ELSE
           /\ entry_pc' = [entry_pc EXCEPT ![t] = IF initialized THEN "route" ELSE "load"]
           /\ entry_name' = [entry_name EXCEPT ![t] = name]
           /\ UNCHANGED route_last
    /\ UNCHANGED <<initialized, library_loader, device_handle_map, load_count,
                   allocVars, mapVars, lifeVars>>

\* Lines 859-861: InitializeWrapper runs LoadLibraries; a failure returns null.
EntryLoad(t, outcome) ==
    /\ ~fault /\ entry_pc[t] = "load"
    /\ library_loader' = LoadLibraries(outcome)
    /\ IF outcome = "ok" THEN
           /\ load_count' = load_count + 1
           /\ entry_pc' = [entry_pc EXCEPT ![t] = "set"]
           /\ UNCHANGED <<entry_name, route_last>>
       ELSE
           /\ route_last' = Resolution("vk_icdGetInstanceProcAddr", entry_name[t],
                                       CHOOSE env \in InstanceAnswers(entry_name[t]) : TRUE,
                                       Resolved(NullFn, {}))
           /\ entry_pc' = [entry_pc EXCEPT ![t] = "idle"]
           /\ entry_name' = [entry_name EXCEPT ![t] = NullName]
           /\ UNCHANGED load_count
    /\ UNCHANGED <<initialized, device_handle_map, allocVars, mapVars, lifeVars>>

\* Line 862: initialized = true.
EntrySet(t) ==
    /\ ~fault /\ entry_pc[t] = "set"
    /\ initialized' = TRUE
    /\ entry_pc' = [entry_pc EXCEPT ![t] = "route"]
    /\ UNCHANGED <<library_loader, device_handle_map, route_last, entry_name, load_count,
                   allocVars, mapVars, lifeVars>>

\* Line 868: return internal_vkGetInstanceProcAddr(instance, pName).
EntryRoute(t, env) ==
    /\ ~fault /\ entry_pc[t] = "route"
    /\ route_last' = Resolution("vk_icdGetInstanceProcAddr", entry_name[t], env,
           internal_vkGetInstanceProcAddr(library_loader, env, entry_name[t]))
    /\ entry_pc' = [entry_pc EXCEPT ![t] = "idle"]
    /\ entry_name' = [entry_name EXCEPT ![t] = NullName]
    /\ UNCHANGED <<initialized, library_loader, device_handle_map, load_count,
                   allocVars, mapVars, lifeVars>>

NextEntry ==
    \/ \E t \in Threads, name \in EntryNames : EntryCheck(t, name) /\ UNCHANGED entryOther
    \/ \E t \in Threads, outcome \in LoadOutcomes : EntryLoad(t, outcome) /\ UNCHANGED entryOther
    \/ \E t \in Threads : EntrySet(t) /\ UNCHANGED entryOther
    \/ \E t \in Threads : \E env \in InstanceAnswers(entry_name[t]) :
          EntryRoute(t, env) /\ UNCHANGED entryOther

SpecEntry == Init /\ [][NextEntry]_vars

\* C23: initialisation is one-time: LoadLibraries runs to success at most
\* once, and a thread that has reached the resolution sees the wrapper
\* initialised.
C23_InitializationRunsOnce ==
    /\ load_count <= 1
    /\ \A t \in Threads : entry_pc[t] = "route" => initialized

-----------------------------------------------------------------------------
(* SpecTables: the handlers of mali_wrapper_icd.cpp that write to          *)
(* managed_instances and device_handle_map, called from two threads.  A    *)
(* write to an unordered container takes time; no handler takes a lock,    *)
(* so a write is entered by one step and completed by a later one, and     *)
(* the other thread's steps can fall in between.                           *)

Write(table, op, key) == [table |-> table, op |-> op, key |-> key]

NotWriting(t) == writing[t] = NoWrite

\* Another thread is inside a write to the table that t is writing to.
Overlaps(t) ==
    \E u \in Threads \ {t} : writing[u].table = writing[t].table

EnterWrite(t, w) ==
    /\ writing' = [writing EXCEPT ![t] = w]
    /\ UNCHANGED <<allocVars, mapVars, lifeVars, routeVars, tablesOther>>

\* The application obtains the entry points through the first resolution.
TablesFirstCall(name, env) ==
    /\ \A t \in Threads : NotWriting(t)
    /\ ~initialized
    /\ vk_icdGetInstanceProcAddr(name, env, "ok")
    /\ UNCHANGED nonIcdVars

\* internal_vkCreateInstance, line 256: managed_instances.insert is entered
\* once the WSI layer's vkCreateInstance has returned VK_SUCCESS. The driver
\* does not hand the same handle to two creations.
InsertInstanceBegin(t, instance) ==
    /\ ~fault /\ initialized /\ Idle(t) /\ NotWriting(t)
    /\ instance \notin driver_live
    /\ \A u \in Threads : writing[u] # Write("managed_instances", "insert", instance)
    /\ EnterWrite(t, Write("managed_instances", "insert", instance))

InsertInstanceEnd(t) ==
    /\ writing[t].op = "insert"
    /\ internal_vkCreateInstance(t, writing[t].key, TRUE)
    /\ writing' = [writing EXCEPT ![t] = NoWrite]
    /\ UNCHANGED <<routeVars, tablesOther>>

\* internal_vkDestroyInstance: lookup and driver call, then line 298,
\* managed_instances.erase(it).
TablesDestroyFind(t, instance) ==
    /\ NotWriting(t)
    /\ DestroyInstanceFind(t, instance)
    /\ UNCHANGED outerVars

TablesDestroyCall(t, available, dies) ==
    /\ NotWriting(t)
    /\ DestroyInstanceCall(t, available, dies)
    /\ UNCHANGED outerVars

EraseInstanceBegin(t) ==
    /\ ~fault /\ pc[t] = "erase" /\ NotWriting(t)
    /\ EnterWrite(t, Write("managed_instances", "erase", targ[t].instance))

EraseInstanceEnd(t, dies) ==
    /\ writing[t].op = "erase"
    /\ DestroyInstanceErase(t, dies)
    /\ writing' = [writing EXCEPT ![t] = NoWrite]
    /\ UNCHANGED <<routeVars, tablesOther>>

\* internal_vkCreateDevice, line 755: device_handle_map[*pDevice] = *pDevice
\* is entered once the WSI layer has created the device.
RegisterDeviceBegin(t, device) ==
    /\ ~fault /\ initialized /\ Idle(t) /\ NotWriting(t)
    /\ library_loader.wsi_handle
    /\ \A u \in Threads : writing[u] # Write("device_handle_map", "register", device)
    /\ EnterWrite(t, Write("device_handle_map", "register", device))

RegisterDeviceEnd(t) ==
    /\ writing[t].op = "register"
    /\ internal_vkCreateDevice(writing[t].key, TRUE, TRUE)
    /\ writing' = [writing EXCEPT ![t] = NoWrite]
    /\ UNCHANGED tablesOther

\* GetCanonicalDevice, line 107, reached from internal_vkGetDeviceProcAddr
\* for a WSI name: device_handle_map[device] = pair.second is entered when
\* the handle is unknown and a registered handle has the same low bits.
CacheDeviceBegin(t, device) ==
    /\ ~fault /\ initialized /\ Idle(t) /\ NotWriting(t)
    /\ device_handle_map[device] = Null
    /\ \E r \in Devices : device_handle_map[r] # Null /\ Low(r) = Low(device)
    /\ EnterWrite(t, Write("device_handle_map", "cache", device))

CacheDeviceEnd(t, env) ==
    /\ writing[t].op = "cache"
    /\ GetDeviceProcAddr(writing[t].key, Plain("vkQueuePresentKHR"), env, FALSE)
    /\ writing' = [writing EXCEPT ![t] = NoWrite]
    /\ UNCHANGED tablesOther

\* Two unsynchronised writes to one container are a data race: besides
\* completing, the write can corrupt the container and end the process.
WriteCorrupts(t) ==
    /\ ~fault /\ ~NotWriting(t) /\ Overlaps(t)
    /\ fault' = TRUE
    /\ UNCHANGED <<ranges, allocations, capacity, hist, mapVars, lifeVars, outerVars>>

NextTables ==
    \/ \E name \in {Plain("vkCreateInstance")} : \E env \in InstanceAnswers(name) :
          TablesFirstCall(name, env)
    \/ \E t \in Threads, instance \in Handles : InsertInstanceBegin(t, instance)
    \/ \E t \in Threads : InsertInstanceEnd(t)
    \/ \E t \in Threads, instance \in Handles : TablesDestroyFind(t, instance)
    \/ \E t \in Threads, dies \in BOOLEAN : TablesDestroyCall(t, TRUE, dies)
    \/ \E t \in Threads : EraseInstanceBegin(t)
    \/ \E t \in Threads, dies \in BOOLEAN : EraseInstanceEnd(t, dies)
    \/ \E t \in Threads, device \in Devices : RegisterDeviceBegin(t, device)
    \/ \E t \in Threads : RegisterDeviceEnd(t)
    \/ \E t \in Threads, device \in Devices : CacheDeviceBegin(t, device)
    \/ \E t \in Threads : \E env \in DeviceAnswers(Plain("vkQueuePresentKHR")) :
          CacheDeviceEnd(t, env)
    \/ \E t \in Threads : WriteCorrupts(t)

SpecTables == Init /\ [][NextTables]_vars

\* C24: writes to the tracked-instance table and to the tracked-device
\* table are serialised: no two threads are inside a write to the same
\* table at the same time.
C24_TableWritesSerialized ==
    \A t \in Threads : \A u \in Threads \ {t} :
        writing[t] # NoWrite => writing[u].table # writing[t].table

-----------------------------------------------------------------------------
(* SpecDispatch: the wrapper library of wrapper_main.cpp, which keeps its  *)
(* per-handle tables in VulkanDispatch and reaches the driver through      *)
(* MaliLoader.  One application thread.                                    *)

\* What the collaborators answer during one call: the driver has the
\* requested function, the driver's instance resolver has
\* vkGetDeviceProcAddr, the placed-mapping extension is enabled.
DispAnswers == [mali : BOOLEAN, gdpa : BOOLEAN, ext : BOOLEAN]

ExtFn(name) == [owner |-> "extension", symbol |-> name]

\* MaliLoader::Initialize outcomes: the library exports (or resolves)
\* vkGetDeviceProcAddr, or does not, or cannot be loaded.
InitOutcomes == {"static", "dynamic", "fail"}

\* InitializeWrapper of wrapper_main.cpp: the result and the loader state.
\* A failed MaliLoader::Initialize shuts the loader down again.
InitializeWrapper(done, loader, outcome) ==
    IF done THEN [ok |-> TRUE, loader |-> loader]
    ELSE IF outcome = "fail" THEN [ok |-> FALSE, loader |-> NotLoaded]
    ELSE [ok |-> TRUE,
          loader |-> [loaded |-> TRUE, get_device_proc_addr |-> outcome = "static"]]

\* ExtensionManager::GetExtensionProcAddr with MapMemoryPlacedExtension
\* registered.
GetExtensionProcAddr(env, name) ==
    IF env.ext /\ name \in {Plain("vkMapMemory2KHR"), Plain("vkUnmapMemory2KHR")}
    THEN ExtFn(name) ELSE NullFn

\* VulkanDispatch::RegisterInstance / RegisterDevice / Unregister*.
RegisterInstance(tables, instance) ==
    [tables EXCEPT ![instance] = EmptyTable(InstanceCacheNames)]

UnregisterInstance(tables, instance) ==
    [tables EXCEPT ![instance] = NoTable(InstanceCacheNames)]

RegisterDevice(tables, assoc, device, instance) ==
    [tables |-> [tables EXCEPT ![device] = EmptyTable(DeviceCacheNames)],
     assoc |-> IF instance # Null THEN [assoc EXCEPT ![device] = instance] ELSE assoc]

UnregisterDevice(tables, assoc, device) ==
    [tables |-> [tables EXCEPT ![device] = NoTable(DeviceCacheNames)],
     assoc |-> [assoc EXCEPT ![device] = Null]]

\* GetCached*Function and Cache*Function: operator[] creates the entry of
\* a handle that has none.
GetCachedFunction(tables, handle, name) ==
    IF tables[handle].present THEN tables[handle].funcs[name] ELSE NullFn

CacheFunction(tables, handle, name, func) ==
    [tables EXCEPT ![handle] = [present |-> TRUE, funcs |-> [@.funcs EXCEPT ![name] = func]]]

\* MaliLoader::GetDeviceProcAddr(instance): is a device resolver returned.
MaliGetDeviceProcAddr(loader, env, instance) ==
    IF ~loader.get_device_proc_addr /\ loader.loaded /\ instance # Null
    THEN env.gdpa ELSE loader.get_device_proc_addr

DispResult(ret, tables, looked_up, recorded, parent) ==
    [ret |-> ret, tables |-> tables, looked_up |-> looked_up, recorded |-> recorded,
     parent |-> parent]

\* VulkanDispatch::GetInstanceProcAddr.
DispatchGetInstanceProcAddr(tables, loader, env, instance, name) ==
    LET cached == GetCachedFunction(tables, instance, name)
        extension_func == GetExtensionProcAddr(env, name)
        mali_func == IF env.mali THEN MaliFn(name) ELSE NullFn
    IN  IF cached # NullFn THEN DispResult(cached, tables, FALSE, Null, Null)
        ELSE IF extension_func # NullFn
        THEN DispResult(extension_func, CacheFunction(tables, instance, name, extension_func),
                        FALSE, Null, Null)
        ELSE IF ~loader.loaded THEN DispResult(NullFn, tables, FALSE, Null, Null)
        ELSE IF mali_func # NullFn
        THEN DispResult(mali_func, CacheFunction(tables, instance, name, mali_func),
                        FALSE, Null, Null)
        ELSE DispResult(NullFn, tables, FALSE, Null, Null)

\* VulkanDispatch::GetDeviceProcAddr, lines 83-87: the parent instance of
\* the device is the one in device_to_instance_, or VK_NULL_HANDLE.
ParentInstance(assoc, device) == assoc[device]

\* VulkanDispatch::GetDeviceProcAddr.
DispatchGetDeviceProcAddr(tables, assoc, loader, env, device, name) ==
    LET cached == GetCachedFunction(tables, device, name)
        extension_func == GetExtensionProcAddr(env, name)
        device_instance == ParentInstance(assoc, device)
        mali_func == IF env.mali THEN MaliFn(name) ELSE NullFn
    IN  IF cached # NullFn THEN DispResult(cached, tables, FALSE, Null, Null)
        ELSE IF extension_func # NullFn
        THEN DispResult(extension_func, CacheFunction(tables, device, name, extension_func),
                        FALSE, Null, Null)
        ELSE IF ~loader.loaded THEN DispResult(NullFn, tables, FALSE, Null, Null)
        ELSE IF ~MaliGetDeviceProcAddr(loader, env, device_instance)
        THEN DispResult(NullFn, tables, TRUE, assoc[device], device_instance)
        ELSE IF mali_func # NullFn
        THEN DispResult(mali_func, CacheFunction(tables, device, name, mali_func),
                        TRUE, assoc[device], device_instance)
        ELSE DispResult(NullFn, tables, TRUE, assoc[device], device_instance)

\* The lowest count the model follows.
MinInstanceCount == 0 - 1

\* What VulkanDispatch::GetInstanceProcAddr / GetDeviceProcAddr return for
\* a handle without cached pointers: the lines after the cache lookup.
UncachedInstanceProcAddr(loader, env, instance, name) ==
    DispatchGetInstanceProcAddr([i \in Handles |-> NoTable(InstanceCacheNames)],
                                loader, env, instance, name).ret

UncachedDeviceProcAddr(assoc, loader, env, device, name) ==
    DispatchGetDeviceProcAddr([d \in Devices |-> NoTable(DeviceCacheNames)],
                              assoc, loader, env, device, name).ret

DispCall(op, instance, device, name, ret, ok) ==
    [NoDispatch EXCEPT !.op = op, !.instance = instance, !.device = device,
                       !.name = name, !.ret = ret, !.ok = ok]

DispFrame == UNCHANGED <<mapVars, lifeVars, routeVars, dispOther>>

\* vkCreateInstance of wrapper_main.cpp.
DispCreateInstance(instance, outcome, ok) ==
    LET init == InitializeWrapper(g_initialized, mali_loader, outcome) IN
    /\ ~fault
    /\ ok => instance \notin mali_instances
    /\ g_initialized' = init.ok
    /\ mali_loader' = init.loader
    /\ IF init.ok /\ ok THEN
           /\ instance_dispatch_tables' = RegisterInstance(instance_dispatch_tables, instance)
           /\ g_current_instance' = instance
           /\ g_instance_count' = g_instance_count + 1
           /\ mali_instances' = mali_instances \cup {instance}
           /\ disp_last' = DispCall("vkCreateInstance", instance, Null, NullName, NullFn, TRUE)
       ELSE
           /\ disp_last' = DispCall("vkCreateInstance", instance, Null, NullName, NullFn, FALSE)
           /\ UNCHANGED <<instance_dispatch_tables, g_current_instance, g_instance_count,
                          mali_instances>>
    /\ UNCHANGED <<device_dispatch_tables, device_to_instance, mali_devices, allocVars>>
    /\ DispFrame

\* vkDestroyInstance of wrapper_main.cpp: the driver is not called; the
\* count is decremented whether or not the handle was registered.
DispDestroyInstance(instance) ==
    /\ ~fault
    /\ g_instance_count > MinInstanceCount
    /\ instance_dispatch_tables' = UnregisterInstance(instance_dispatch_tables, instance)
    /\ g_instance_count' = g_instance_count - 1
    /\ disp_last' = DispCall("vkDestroyInstance", instance, Null, NullName, NullFn, TRUE)
    /\ UNCHANGED <<g_initialized, mali_loader, g_current_instance, device_dispatch_tables,
                   device_to_instance, mali_instances, mali_devices, allocVars>>
    /\ DispFrame

\* vkCreateDevice of wrapper_main.cpp: the driver's vkCreateDevice is
\* looked up with g_current_instance, and the device is registered with it.
DispCreateDevice(device, available, ok) ==
    LET created == /\ mali_loader.loaded /\ g_current_instance # Null
                   /\ available /\ ok
        r == RegisterDevice(device_dispatch_tables, device_to_instance, device,
                            g_current_instance)
    IN
    /\ ~fault
    /\ ok => device \notin mali_devices
    /\ IF created THEN
           /\ device_dispatch_tables' = r.tables
           /\ device_to_instance' = r.assoc
           /\ mali_devices' = mali_devices \cup {device}
       ELSE UNCHANGED <<device_dispatch_tables, device_to_instance, mali_devices>>
    /\ disp_last' = [DispCall("vkCreateDevice", g_current_instance, device, NullName,
                              NullFn, created)
                     EXCEPT !.recorded = device_to_instance'[device]]
    /\ UNCHANGED <<g_initialized, mali_loader, g_current_instance, instance_dispatch_tables,
                   mali_instances, allocVars>>
    /\ UNCHANGED g_instance_count
    /\ DispFrame

\* vkDestroyDevice of wrapper_main.cpp: UnregisterDevice, then the driver's
\* vkDestroyDevice is looked up through VulkanDispatch::GetDeviceProcAddr
\* and called when found. Destroying a device the driver does not hold is
\* undefined inside the driver: the call returns or the process dies.
DispDestroyDevice(device, env, dies) ==
    LET u == UnregisterDevice(device_dispatch_tables, device_to_instance, device)
        r == DispatchGetDeviceProcAddr(u.tables, u.assoc, mali_loader, env, device,
                                       Plain("vkDestroyDevice"))
        called == r.ret # NullFn
    IN
    /\ ~fault
    /\ device_dispatch_tables' = r.tables
    /\ device_to_instance' = u.assoc
    /\ mali_devices' = IF called THEN mali_devices \ {device} ELSE mali_devices
    /\ fault' = (called /\ dies /\ device \notin mali_devices)
    /\ disp_last' = [DispCall("vkDestroyDevice", Null, device, Plain("vkDestroyDevice"),
                              r.ret, TRUE)
                     EXCEPT !.looked_up = r.looked_up, !.recorded = r.recorded,
                            !.parent = r.parent,
                            !.tracked = (device_to_instance[device] # Null),
                            !.destroyed = called]
    /\ UNCHANGED <<g_initialized, mali_loader, g_current_instance, instance_dispatch_tables,
                   mali_instances, ranges, allocations, capacity, hist>>
    /\ UNCHANGED g_instance_count
    /\ DispFrame

\* vkGetInstanceProcAddr of wrapper_main.cpp.
DispIntercepted == {Plain(n) : n \in {"vkCreateInstance", "vkDestroyInstance",
                                      "vkGetInstanceProcAddr", "vkGetDeviceProcAddr",
                                      "vkCreateDevice", "vkDestroyDevice"}}

DispGetInstanceProcAddr(instance, name, env, outcome) ==
    LET init == InitializeWrapper(g_initialized, mali_loader, outcome)
        r == DispatchGetInstanceProcAddr(instance_dispatch_tables, init.loader, env,
                                         instance, name)
    IN
    /\ ~fault
    /\ IF name = NullName THEN
           /\ disp_last' = DispCall("vkGetInstanceProcAddr", Null, Null, name, NullFn, FALSE)
           /\ UNCHANGED <<g_initialized, mali_loader, instance_dispatch_tables>>
       ELSE
           /\ g_initialized' = init.ok
           /\ mali_loader' = init.loader
           /\ IF ~init.ok THEN
                  /\ disp_last' = DispCall("vkGetInstanceProcAddr", Null, Null, name,
                                           NullFn, FALSE)
                  /\ UNCHANGED instance_dispatch_tables
              ELSE IF name \in DispIntercepted THEN
                  /\ disp_last' = DispCall("vkGetInstanceProcAddr", Null, Null, name,
                                           Wrapper(name[1]), TRUE)
                  /\ UNCHANGED instance_dispatch_tables
              ELSE
                  /\ instance_dispatch_tables' = r.tables
                  /\ disp_last' = [DispCall("vkGetInstanceProcAddr", Null, Null, name,
                                            r.ret, TRUE)
                                   EXCEPT !.fresh = UncachedInstanceProcAddr(
                                                       init.loader, env, instance, name)]
    /\ UNCHANGED <<g_current_instance, device_dispatch_tables, device_to_instance,
                   mali_instances, mali_devices, allocVars>>
    /\ UNCHANGED g_instance_count
    /\ DispFrame

\* vkGetDeviceProcAddr of wrapper_main.cpp.
DispGetDeviceProcAddr(device, name, env, outcome) ==
    LET init == InitializeWrapper(g_initialized, mali_loader, outcome)
        r == DispatchGetDeviceProcAddr(device_dispatch_tables, device_to_instance,
                                       init.loader, env, device, name)
    IN
    /\ ~fault
    /\ IF name = NullName THEN
           /\ disp_last' = DispCall("vkGetDeviceProcAddr", Null, device, name, NullFn, FALSE)
           /\ UNCHANGED <<g_initialized, mali_loader, device_dispatch_tables>>
       ELSE
           /\ g_initialized' = init.ok
           /\ mali_loader' = init.loader
           /\ IF ~init.ok THEN
                  /\ disp_last' = DispCall("vkGetDeviceProcAddr", Null, device, name,
                                           NullFn, FALSE)
                  /\ UNCHANGED device_dispatch_tables
              ELSE IF name \in {Plain("vkGetDeviceProcAddr"), Plain("vkDestroyDevice")} THEN
                  /\ disp_last' = DispCall("vkGetDeviceProcAddr", Null, device, name,
                                           Wrapper(name[1]), TRUE)
                  /\ UNCHANGED device_dispatch_tables
              ELSE
                  /\ device_dispatch_tables' = r.tables
                  /\ disp_last' = [DispCall("vkGetDeviceProcAddr", Null, device, name,
                                            r.ret, TRUE)
                                   EXCEPT !.looked_up = r.looked_up,
                                          !.recorded = r.recorded, !.parent = r.parent,
                                          !.fresh = UncachedDeviceProcAddr(
                                                       device_to_instance, init.loader,
                                                       env, device, name)]
    /\ UNCHANGED <<g_current_instance, instance_dispatch_tables, device_to_instance,
                   mali_instances, mali_devices, allocVars>>
    /\ UNCHANGED g_instance_count
    /\ DispFrame

\* The inputs that can differ in what a call observes.
DispOutcomes == IF g_initialized THEN {"static"} ELSE InitOutcomes

DispInstanceNames == {NullName, Plain("vkCreateInstance"), Plain("vkMapMemory2KHR")}
DispDeviceNames == {NullName, Plain("vkGetDeviceProcAddr"), Plain("vkDestroyDevice"),
                    Plain("vkCmdDraw")}

\* The device handles the driver hands out.
DispDevices == {d \in Devices : d < NumHandles}

\* The driver's instance resolver is asked for vkGetDeviceProcAddr only
\* when the loader has no static device resolver and the device has a
\* recorded instance; the driver is asked for the function only when a
\* device resolver was found; the extension is asked about its own names.
NameAnswers(name) ==
    {env \in DispAnswers : /\ env.ext => name = Plain("vkMapMemory2KHR")
                           /\ env.mali => name \notin DispIntercepted \cup {NullName}
                           /\ ~env.gdpa}

DeviceNameAnswers(device, name) ==
    {env \in DispAnswers :
        /\ ~env.ext
        /\ env.gdpa => /\ name \notin {NullName, Plain("vkGetDeviceProcAddr")}
                       /\ g_initialized /\ ~mali_loader.get_device_proc_addr
                       /\ device_to_instance[device] # Null
                       /\ name # Plain("vkDestroyDevice")
        /\ env.mali => /\ name \notin {NullName, Plain("vkGetDeviceProcAddr")}
                       /\ env.gdpa \/ mali_loader.get_device_proc_addr \/ ~g_initialized}

\* Calls that look at no handle are made with the first one.
HandlesFor(name) == IF name \in DispIntercepted \cup {NullName} THEN {1} ELSE Handles
DevicesFor(name) == IF name \in DispIntercepted \cup {NullName} THEN {1} ELSE DispDevices

NextDispatch ==
    \/ \E instance \in Handles, ok \in BOOLEAN : \E outcome \in DispOutcomes :
          DispCreateInstance(instance, outcome, ok)
    \/ \E instance \in Handles : DispDestroyInstance(instance)
    \/ \E device \in DispDevices, available \in BOOLEAN :
          DispCreateDevice(device, available, available)
    \/ \E device \in DispDevices :
          \E env \in DeviceNameAnswers(device, Plain("vkDestroyDevice")) :
             \E dies \in {d \in BOOLEAN : d => env.mali /\ device \notin mali_devices} :
                DispDestroyDevice(device, env, dies)
    \/ \E name \in DispInstanceNames : \E instance \in HandlesFor(name) :
          \E env \in NameAnswers(name), outcome \in DispOutcomes :
             DispGetInstanceProcAddr(instance, name, env, outcome)
    \/ \E name \in DispDeviceNames \ {Plain("vkDestroyDevice")} : \E device \in DevicesFor(name) :
          \E env \in DeviceNameAnswers(device, name), outcome \in DispOutcomes :
             DispGetDeviceProcAddr(device, name, env, outcome)

SpecDispatch == Init /\ [][NextDispatch]_vars

-----------------------------------------------------------------------------
(* Claims about the wrapper library's device tracking, under SpecDispatch *)

\* The instances the wrapper library tracks.
TrackedInstances == {i \in Handles : instance_dispatch_tables[i].present}

\* C25: a resolution that looks up the parent instance of a device yields
\* the instance recorded for the device when there is one; otherwise the
\* most recently created instance when it is tracked, or else some
\* tracked instance; it yields none only when no instance is tracked.
C25_ParentInstanceResolved ==
    disp_last.looked_up =>
        IF disp_last.recorded # Null THEN disp_last.parent = disp_last.recorded
        ELSE IF TrackedInstances # {}
        THEN /\ disp_last.parent \in TrackedInstances
             /\ g_current_instance \in TrackedInstances
                   => disp_last.parent = g_current_instance
        ELSE TRUE

\* C26: when vkDestroyDevice has returned for a tracked device, no table
\* holds an entry for the handle (neither the per-device dispatch cache
\* nor the device-to-instance map) and the driver's vkDestroyDevice has
\* been called for it.
C26_DestroyedDeviceUntracked ==
    (disp_last.op = "vkDestroyDevice" /\ disp_last.tracked) =>
        /\ ~device_dispatch_tables[disp_last.device].present
        /\ device_to_instance[disp_last.device] = Null
        /\ disp_last.destroyed

-----------------------------------------------------------------------------
(* Further claims about the mapper, checked under SpecMap *)

-----------------------------------------------------------------------------
(* Further claims about the allocator, checked under SpecAlloc *)

\* The index of the first range of rs in which AllocateAny(size, alignment)
\* fits, 0 when there is none.
FirstFit(rs, size, alignment) ==
    LET fitI == {i \in 1..Len(rs) : FitsAny(rs[i], size, alignment)} IN
    IF size = 0 \/ fitI = {} THEN 0 ELSE CHOOSE k \in fitI : \A j \in fitI : k <= j

\* C28: every AllocateAny(size, alignment) call returns: when a free range
\* fits, the aligned start inside the first such range, which is a
\* multiple of the alignment and lies with its size bytes inside the
\* pool; when none fits, null, and the range list stays as it was.
C28_AllocateAnyFirstFit ==
    [][\A size \in Sizes, alignment \in Alignments :
          AllocateAny(size, alignment) =>
             LET i == FirstFit(ranges, size, alignment)
                 returned(a) == /\ hist' # <<>> => hist'[Len(hist')].ret = a
                                /\ a # Null => allocations'[a] = size
             IN  /\ ~fault'
                 /\ IF i = 0 THEN returned(Null) /\ ranges' = ranges
                    ELSE LET a == AlignAddress(ranges[i].start, alignment) IN
                         /\ returned(a)
                         /\ alignment > 1 => a % alignment = 0
                         /\ a >= PoolBase /\ a + size <= PoolEnd
                         /\ a >= ranges[i].start
                         /\ a + size <= ranges[i].start + ranges[i].size]_vars

\* C29: the live allocations are pairwise disjoint, and no call hands out
\* an address that is live: the entry of a live allocation is removed by
\* Free or stays as it is, it is never replaced by a new allocation.
C29_LiveAllocationsDisjoint ==
    [][/\ \A a \in Live(allocations') : \A b \in Live(allocations') \ {a} :
             ~Overlap(a, allocations'[a], b, allocations'[b])
       /\ \A a \in Live(allocations) : allocations'[a] \in {0, allocations[a]}]_vars



-----------------------------------------------------------------------------
(* Surface creation against instance destruction, checked under SpecLife *)

\* C31: between a surface-creation call's reference acquisition and the end
\* of its backend call, the driver-level destroy of that instance does not
\* fire: an instance that is live in the driver while a creation call is
\* inside the backend is still live after every step that leaves the call
\* inside the backend.
C31_BackendNeverOnDestroyedInstance ==
    [][\A t \in Threads :
          (/\ pc[t] = "surface" /\ pc'[t] = "surface"
           /\ targ[t].instance \in driver_live) =>
              targ[t].instance \in driver_live']_vars


-----------------------------------------------------------------------------
(* The mutexes of the allocator and the mapper, and the accesses to the    *)
(* tables they guard. A call is the sequence of lock, unlock and table     *)
(* steps its code performs on the path taken; what the steps do to the     *)
(* tables is the subject of SpecAlloc, SpecMap and SpecExt.                *)

LockStep(m) == <<[kind |-> "lock", on |-> m]>>
UnlockStep(m) == <<[kind |-> "unlock", on |-> m]>>
Access(table) == <<[kind |-> "access", on |-> table]>>

\* std::lock_guard<std::mutex> lock(m) around the rest of a function body.
lock_guard(m, body) == LockStep(m) \o body \o UnlockStep(m)

\* AllocateAddress (35-81), AllocateSpecificAddress (83-133) and
\* DeallocateAddress (135-178): an argument check that returns before the
\* lock, then the body under mutex_.
AllocateAddressSteps(valid) ==
    IF valid THEN lock_guard("mutex_", Access("ranges_")) ELSE <<>>
AllocateSpecificAddressSteps(valid) ==
    IF valid THEN lock_guard("mutex_", Access("ranges_")) ELSE <<>>
DeallocateAddressSteps(valid) ==
    IF valid THEN lock_guard("mutex_", Access("ranges_")) ELSE <<>>

\* GetUsedSize (180-191) and GetFreeSize (193-195), which calls it.
GetUsedSizeSteps == lock_guard("mutex_", Access("ranges_"))
GetFreeSizeSteps == GetUsedSizeSteps

\* DumpState (197-210): under mutex_, line 203 builds its message from
\* GetUsedSize() and GetFreeSize() (LOG_INFO evaluates its argument), then
\* the ranges are listed.
DumpStateSteps ==
    lock_guard("mutex_", GetUsedSizeSteps \o GetFreeSizeSteps \o Access("ranges_"))

\* The paths through MemoryMapper::MapMemory (38-105).
MapPaths == {"null_out", "already", "driver_failed", "exact", "exact_refused",
             "exact_redirect_failed", "any", "any_refused", "any_redirect_failed"}
MapPathSucceeds(path) ==
    path \in {"already", "exact", "exact_refused", "any", "any_refused"}

\* MemoryMapper::MapMemory: the null check of line 40 precedes the lock;
\* the lookup of line 46, the allocator calls of 68 / 84, the rollback of
\* 75 / 91 and the store of line 98 are under mappings_mutex_.
MapMemorySteps(path, valid) ==
    LET find == Access("mappings_")
        store == Access("mappings_")
    IN
    CASE path = "null_out" -> <<>>
      [] path \in {"already", "driver_failed"} -> lock_guard("mappings_mutex_", find)
      [] path \in {"exact", "exact_refused"} ->
            lock_guard("mappings_mutex_",
                       find \o AllocateSpecificAddressSteps(valid) \o store)
      [] path = "exact_redirect_failed" ->
            lock_guard("mappings_mutex_",
                       find \o AllocateSpecificAddressSteps(TRUE)
                            \o DeallocateAddressSteps(TRUE))
      [] path \in {"any", "any_refused"} ->
            lock_guard("mappings_mutex_", find \o AllocateAddressSteps(valid) \o store)
      [] path = "any_redirect_failed" ->
            lock_guard("mappings_mutex_",
                       find \o AllocateAddressSteps(TRUE) \o DeallocateAddressSteps(TRUE))

\* MemoryMapper::UnmapMemory (107-130).
UnmapMemorySteps(found, placed) ==
    lock_guard("mappings_mutex_",
               Access("mappings_")
               \o (IF found /\ placed THEN DeallocateAddressSteps(TRUE) ELSE <<>>)
               \o (IF found THEN Access("mappings_") ELSE <<>>))

\* MapMemoryPlacedExtension::MapMemory2KHR (111-148): the mapper's call,
\* then on success the store into memory_mappings_ at line 142.
MapMemory2KHRSteps(path, valid) ==
    MapMemorySteps(path, valid)
    \o (IF MapPathSucceeds(path) THEN Access("memory_mappings_") ELSE <<>>)

\* MapMemoryPlacedExtension::UnmapMemory2KHR (150-177): the find of line
\* 165, the mapper's call, the erase of line 174.
UnmapMemory2KHRSteps(known, found, placed) ==
    Access("memory_mappings_")
    \o (IF known THEN UnmapMemorySteps(found, placed) \o Access("memory_mappings_")
        ELSE <<>>)

\* Every call an application thread can make, as its steps.
LockCalls ==
    {AllocateAddressSteps(TRUE), AllocateSpecificAddressSteps(TRUE),
     DeallocateAddressSteps(TRUE), GetUsedSizeSteps, GetFreeSizeSteps, DumpStateSteps}
    \cup {MapMemorySteps(path, valid) : path \in MapPaths, valid \in BOOLEAN}
    \cup {UnmapMemorySteps(found, placed) : found \in BOOLEAN, placed \in BOOLEAN}
    \cup {MapMemory2KHRSteps(path, valid) : path \in MapPaths, valid \in BOOLEAN}
    \cup {UnmapMemory2KHRSteps(known, found, placed) :
            known \in BOOLEAN, found \in BOOLEAN, placed \in BOOLEAN}

NextStep(t) == Head(todo[t])
Running(t) == ~lock_fault /\ todo[t] # <<>>
Advance(t) == todo' = [todo EXCEPT ![t] = Tail(@)]

\* A thread enters one of the calls.
LockCall(t, steps) ==
    /\ ~lock_fault /\ todo[t] = <<>> /\ steps # <<>>
    /\ todo' = [todo EXCEPT ![t] = steps]
    /\ UNCHANGED <<owner, in_access, lock_fault>>

\* std::mutex::lock on a mutex no thread holds; on a mutex another thread
\* holds the caller waits.
LockAcquire(t) ==
    /\ Running(t) /\ NextStep(t).kind = "lock"
    /\ owner[NextStep(t).on] = Null
    /\ owner' = [owner EXCEPT ![NextStep(t).on] = t]
    /\ Advance(t)
    /\ UNCHANGED <<in_access, lock_fault>>

\* std::mutex::lock by the thread that holds the mutex is undefined: the
\* thread waits for itself for ever (no step), or lock() throws
\* std::system_error, which nothing catches.
LockAgainThrows(t) ==
    /\ Running(t) /\ NextStep(t).kind = "lock"
    /\ owner[NextStep(t).on] = t
    /\ lock_fault' = TRUE
    /\ UNCHANGED <<owner, todo, in_access>>

\* The lock_guard's destructor.
LockRelease(t) ==
    /\ Running(t) /\ NextStep(t).kind = "unlock"
    /\ owner' = [owner EXCEPT ![NextStep(t).on] = Null]
    /\ Advance(t)
    /\ UNCHANGED <<in_access, lock_fault>>

\* A find, operator[], insert or erase on a table begins ...
AccessBegin(t) ==
    /\ Running(t) /\ NextStep(t).kind = "access" /\ in_access[t] = "none"
    /\ in_access' = [in_access EXCEPT ![t] = NextStep(t).on]
    /\ UNCHANGED <<owner, todo, lock_fault>>

\* ... and ends.
AccessEnd(t) ==
    /\ Running(t) /\ in_access[t] # "none"
    /\ in_access' = [in_access EXCEPT ![t] = "none"]
    /\ Advance(t)
    /\ UNCHANGED <<owner, lock_fault>>

lockFrame == <<allocVars, mapVars, lifeVars, routeVars, lockOther>>

NextLock ==
    \/ \E t \in Threads, steps \in LockCalls : LockCall(t, steps) /\ UNCHANGED lockFrame
    \/ \E t \in Threads : LockAcquire(t) /\ UNCHANGED lockFrame
    \/ \E t \in Threads : LockAgainThrows(t) /\ UNCHANGED lockFrame
    \/ \E t \in Threads : LockRelease(t) /\ UNCHANGED lockFrame
    \/ \E t \in Threads : AccessBegin(t) /\ UNCHANGED lockFrame
    \/ \E t \in Threads : AccessEnd(t) /\ UNCHANGED lockFrame

SpecLock == Init /\ [][NextLock]_vars

\* A thread is about to lock a mutex it holds.
LocksAgain(t) ==
    /\ todo[t] # <<>> /\ NextStep(t).kind = "lock"
    /\ owner[NextStep(t).on] = t

\* A thread that holds the allocator's mutex is about to lock the mapper's.
ReverseOrder(t) ==
    /\ todo[t] # <<>> /\ NextStep(t).kind = "lock"
    /\ NextStep(t).on = "mappings_mutex_" /\ owner["mutex_"] = t

\* C32: no operation of the allocator or the mapper blocks for ever on the
\* subsystems' mutexes: no call locks a non-recursive mutex it already
\* holds, and mappings_mutex_ is never requested while mutex_ is held.
C32_NoSelfLockNoReverseOrder ==
    /\ ~lock_fault
    /\ \A t \in Threads : ~LocksAgain(t) /\ ~ReverseOrder(t)


\* The mapper's record table and the extension's memory-to-address table.
MappingTables == {"mappings_", "memory_mappings_"}

\* C37: every read and write of the mapping tables happens while the
\* accessing thread holds a mutex, and no two threads are inside an access
\* to the same mapping table at the same time.
C37_MappingTablesGuarded ==
    \A t \in Threads :
        in_access[t] \in MappingTables =>
            /\ \E m \in Mutexes : owner[m] = t
            /\ \A u \in Threads \ {t} : in_access[u] # in_access[t]


-----------------------------------------------------------------------------
(* The pool's reservation, checked under SpecMap *)

\* The pool addresses that back a redirected mapping.
Redirected == UNION {f[1] .. (f[1] + f[2] - 1) : f \in os_fixed}

\* C33: after any sequence of MapMemory / UnmapMemory calls every address
\* of the pool that does not back a redirected mapping is still covered by
\* the reservation made at construction.
C33_PoolStaysReserved ==
    \A a \in PoolAddrs : a \notin Redirected => a \in os_reserved


-----------------------------------------------------------------------------
(* Further claims about the wrapper library, checked under SpecDispatch *)

\* Instances whose vkDestroyInstance has returned: created in the driver
\* (which this library never asks to destroy them) and unregistered since.
DestroyedInstances == {i \in mali_instances : ~instance_dispatch_tables[i].present}

\* C34: after vkDestroyInstance has returned for an instance, no device is
\* created with it (it is not the remembered current instance handed to
\* the driver and recorded as the device's parent), and no device-level
\* resolution hands it to the driver as the device's parent.
C34_DestroyedInstanceNotUsed ==
    /\ (disp_last.op = "vkCreateDevice" /\ disp_last.ok) =>
          /\ disp_last.instance \notin DestroyedInstances
          /\ disp_last.recorded \notin DestroyedInstances
    /\ disp_last.looked_up => disp_last.parent \notin DestroyedInstances


\* C35: destroying an instance handle that is not tracked changes no
\* tracked state, so the count of live instances equals the number of
\* tracked instances and is never negative.
C35_CountMatchesTrackedInstances ==
    /\ g_instance_count = Cardinality(TrackedInstances)
    /\ g_instance_count >= 0


\* The last call was a resolution that went through the dispatcher's cache.
Dispatched ==
    /\ disp_last.ok
    /\ \/ disp_last.op = "vkGetInstanceProcAddr" /\ disp_last.name \notin DispIntercepted
       \/ /\ disp_last.op = "vkGetDeviceProcAddr"
          /\ disp_last.name \notin {Plain("vkGetDeviceProcAddr"), Plain("vkDestroyDevice")}

\* C36: the per-handle cache is transparent with respect to the
\* extensions: whenever the cached or the uncached resolution (extension
\* intercepts first, then the driver) yields an extension's pointer, a
\* resolution through the cache returns what the uncached resolution
\* returns at that moment.
C36_CacheTransparent ==
    (Dispatched /\ "extension" \in {disp_last.ret.owner, disp_last.fresh.owner}) =>
        disp_last.ret = disp_last.fresh


-----------------------------------------------------------------------------
(* Instance-extension enumeration: internal_vkEnumerateInstanceExtension-  *)
(* Properties of the ICD and vkEnumerateInstanceExtensionProperties of the *)
(* wrapper library. An extension is its name; property_count is the value *)
(* of *pPropertyCount on entry, has_array whether pProperties is non-null. *)

MaxCapacity == 8

std_min(a, b) == IF a < b THEN a ELSE b

\* What a call leaves behind: count is *pPropertyCount on return, written
\* the entries stored into pProperties, total the size of the combined list.
Enumerated(op, has_array, property_count, total, count, written, ret) ==
    [op |-> op, has_array |-> has_array, property_count |-> property_count, total |-> total,
     count |-> count, written |-> written, ret |-> ret]

\* The driver's vkEnumerateInstanceExtensionProperties, which follows the
\* two-call contract over its own list.
mali_enumerate(exts, has_array, property_count) ==
    IF ~has_array THEN [count |-> Len(exts), written |-> <<>>, ret |-> "VK_SUCCESS"]
    ELSE LET n == std_min(property_count, Len(exts)) IN
         [count |-> n, written |-> SubSeq(exts, 1, n),
          ret |-> IF n < Len(exts) THEN "VK_INCOMPLETE" ELSE "VK_SUCCESS"]

\* mali_wrapper_icd.cpp:338-345
wsi_extension_names ==
    <<"VK_KHR_surface", "VK_KHR_wayland_surface", "VK_KHR_xcb_surface",
      "VK_KHR_xlib_surface", "VK_KHR_get_surface_capabilities2",
      "VK_EXT_surface_maintenance1">>

\* Lines 358-371: the driver's extensions, then the WSI extensions the
\* driver does not list.
combined_extensions(mali_extensions, wsi_extensions) ==
    mali_extensions \o
    SelectSeq(wsi_extensions,
              LAMBDA e : \A k \in 1 .. Len(mali_extensions) : mali_extensions[k] # e)

\* internal_vkEnumerateInstanceExtensionProperties. layer: pLayerName is
\* non-null; mali: the driver exports the function; wsi: the WSI layer is
\* loaded.
internal_vkEnumerateInstanceExtensionProperties(layer, mali, exts, wsi, has_array, property_count) ==
    LET mali_extensions == IF mali THEN exts ELSE <<>>
        wsi_extensions == IF wsi THEN wsi_extension_names ELSE <<>>
        combined == combined_extensions(mali_extensions, wsi_extensions)
        copy_count == std_min(property_count, Len(combined))
    IN  IF layer
        THEN Enumerated("icd_layer", has_array, property_count, 0, 0, <<>>, "VK_SUCCESS")
        ELSE IF ~has_array
        THEN Enumerated("icd", has_array, property_count, Len(combined), Len(combined), <<>>,
                        "VK_SUCCESS")
        ELSE Enumerated("icd", has_array, property_count, Len(combined), copy_count,
                        SubSeq(combined, 1, copy_count),
                        IF copy_count < Len(combined) THEN "VK_INCOMPLETE"
                        ELSE "VK_SUCCESS")

\* vkEnumerateInstanceExtensionProperties of wrapper_main.cpp. available:
\* InitializeWrapper succeeds and the driver exports the function.
vkEnumerateInstanceExtensionProperties(available, exts, wrapper_extensions, has_array, property_count) ==
    LET mali == mali_enumerate(exts, has_array, property_count)
        total == Len(exts) + Len(wrapper_extensions)
        \* lines 271-272
        original_count == mali.count
        total_extensions == original_count + Len(wrapper_extensions)
        \* lines 274-278: *pPropertyCount still holds original_count here
        stored == SelectSeq([k \in 1 .. Len(wrapper_extensions) |-> k],
                            LAMBDA k : /\ original_count + (k - 1) < total_extensions
                                       /\ original_count + (k - 1) < original_count)
        \* line 280, then line 282 compares the count with itself
        count == total_extensions
    IN  IF ~available
        THEN Enumerated("wrapper_failed", has_array, property_count, total,
                        property_count, <<>>, "VK_ERROR_INITIALIZATION_FAILED")
        ELSE IF ~has_array
        THEN Enumerated("wrapper", has_array, property_count, total,
                        mali.count + Len(wrapper_extensions), <<>>, mali.ret)
        ELSE Enumerated("wrapper", has_array, property_count, total, count,
                        mali.written \o [k \in 1 .. Len(stored) |->
                                            wrapper_extensions[stored[k]]],
                        IF count > total_extensions THEN "VK_INCOMPLETE"
                        ELSE "VK_SUCCESS")

\* The lists the driver and the extension manager can report.
DriverExtensionLists ==
    {<<>>, <<"VK_KHR_surface">>, <<"VK_KHR_display", "VK_KHR_surface">>,
     <<"VK_KHR_display", "VK_EXT_debug_utils", "VK_KHR_get_physical_device_properties2">>}
WrapperExtensionLists ==
    {<<>>, <<"VK_EXT_map_memory_placed">>,
     <<"VK_EXT_map_memory_placed", "VK_KHR_map_memory2">>}
Capacities == 0 .. MaxCapacity

enumFrame == <<allocVars, mapVars, lifeVars, routeVars, enumOther>>

EnumerateIcd(layer, mali, exts, wsi, has_array, property_count) ==
    enum_last' = internal_vkEnumerateInstanceExtensionProperties(layer, mali, exts, wsi,
                                                                 has_array, property_count)

EnumerateWrapper(available, exts, wrapper_extensions, has_array, property_count) ==
    enum_last' = vkEnumerateInstanceExtensionProperties(available, exts,
                                                        wrapper_extensions, has_array,
                                                        property_count)

NextEnum ==
    \/ \E layer \in BOOLEAN, mali \in BOOLEAN, exts \in DriverExtensionLists,
          wsi \in BOOLEAN, has_array \in BOOLEAN, property_count \in Capacities :
          EnumerateIcd(layer, mali, exts, wsi, has_array, property_count)
          /\ UNCHANGED enumFrame
    \/ \E available \in BOOLEAN, exts \in DriverExtensionLists,
          wrapper_extensions \in WrapperExtensionLists, has_array \in BOOLEAN,
          property_count \in Capacities :
          EnumerateWrapper(available, exts, wrapper_extensions, has_array, property_count)
          /\ UNCHANGED enumFrame

SpecEnum == Init /\ [][NextEnum]_vars

\* The two-call contract for one completed call.
TwoCallContract(e) ==
    IF ~e.has_array
    THEN e.count = e.total /\ e.written = <<>>
    ELSE /\ Len(e.written) = std_min(e.property_count, e.total)
         /\ e.count = Len(e.written)
         /\ (e.ret = "VK_INCOMPLETE") <=> (e.property_count < e.total)

\* C38: instance-extension enumeration follows the two-call contract over
\* the combined list of N extensions: with a null array the count is N;
\* with an array of property_count c, min(c, N) entries are written, the count is
\* the number of entries written, and the result is VK_INCOMPLETE exactly
\* when c < N.
C38_EnumerationTwoCallContract ==
    enum_last.op \in {"icd", "wrapper"} => TwoCallContract(enum_last)

====
